---------------------------- MODULE Spec2Model ----------------------------
(***************************************************************************)
(* A model of the Freedcamp MCP server (src/freedcamp_mcp.py): the signer, *)
(* the request dispatcher, the filter/query builders, the entity           *)
(* normalizer and the view projector, with the upstream service as the     *)
(* environment.                                                            *)
(*                                                                         *)
(* Python values are tagged records (IntV, StrV, NoneV, BoolV, ListV,      *)
(* DictV); a Python dict is a TLA+ function from its keys to values, so    *)
(* that d[k] = v overwrites and d.get(k, default) is Get(d, k, default).   *)
(* A call that can raise returns Ok(value) or Raise(exception name).       *)
(***************************************************************************)
EXTENDS Integers, Sequences, FiniteSets, TLC

VARIABLES
    tz,                \* the process's local UTC offset in seconds (datetime.fromtimestamp)
    platform,          \* "posix" or "win32": fromtimestamp of a negative value raises OSError on win32
    phase,             \* normalizer run: "raw" -> "formatted" -> "projected"
    rawTask,           \* the raw upstream task record being normalized
    icf,               \* include_custom_fields passed to _format_task
    detailed,          \* _format_task(rawTask, icf)
    minimal,           \* _format_task_summary(rawTask)
    minimalOfDetailed, \* _format_task_summary(detailed), as the summary tools compute it
    now,               \* time.time() in whole seconds
    pc,                \* the running tool call: "idle", "await_primary", "await_secondary", "done"
    tool,              \* the tool being run
    args,              \* its arguments
    sent,              \* the requests this call handed to the HTTP client, each with the clock at dispatch
    replies,           \* what the HTTP client answered to them, in order
    primary,           \* the first operation's result, held while the name lookup is awaited
    out,               \* what the tool returned to the transport
    calls,             \* two tool calls running on the one instance, each with its own frame
    finished,          \* the calls that have returned, in the order they returned
    hc                 \* the health check run: its position, environment, instance and result

envVars == <<tz, platform>>

normVars == <<phase, rawTask, icf, detailed, minimal, minimalOfDetailed>>

callVars == <<now, pc, tool, args, sent, replies, primary, out>>

pairVars == <<calls, finished>>

healthVars == <<hc>>

vars == <<envVars, normVars, callVars, pairVars, healthVars>>

-----------------------------------------------------------------------------
(* Python values *)

IntV(n) == [t |-> "int", i |-> n]
StrV(x) == [t |-> "str", s |-> x]
BoolV(b) == [t |-> "bool", b |-> b]
ListV(l) == [t |-> "list", l |-> l]
DictV(d) == [t |-> "dict", d |-> d]
NoneV == [t |-> "none"]

EmptyDict == [k \in {} |-> NoneV]

\* bool(v): None, 0, "", [], {} and False are falsy
Truthy(v) ==
    CASE v.t = "int" -> v.i # 0
      [] v.t = "str" -> v.s # ""
      [] v.t = "bool" -> v.b
      [] v.t = "list" -> v.l # <<>>
      [] v.t = "dict" -> DOMAIN v.d # {}
      [] OTHER -> FALSE

\* d.get(k, default)
Get(d, k, default) == IF k \in DOMAIN d THEN d[k] ELSE default

\* d[k] = v
DictSet(d, k, v) == (k :> v) @@ d

\* the outcome of a call: a value, or an exception propagating
Ok(v) == [exc |-> "none", val |-> v]
Raise(e) == [exc |-> e, val |-> NoneV]
IsOk(r) == r.exc = "none"

-----------------------------------------------------------------------------
(* str(int) and int(str) *)

DigitChars == <<"0", "1", "2", "3", "4", "5", "6", "7", "8", "9">>

IsDigit(c) == \E d \in 1..10 : DigitChars[d] = c

DigitVal(c) == (CHOOSE d \in 1..10 : DigitChars[d] = c) - 1

RECURSIVE NatToStr(_)
NatToStr(n) == IF n < 10 THEN DigitChars[n + 1]
               ELSE NatToStr(n \div 10) \o DigitChars[(n % 10) + 1]

\* str(n)
IntToStr(n) == IF n < 0 THEN "-" \o NatToStr(-n) ELSE NatToStr(n)

RECURSIVE LStrip(_)
LStrip(x) == IF x # "" /\ Head(x) = " " THEN LStrip(Tail(x)) ELSE x

RECURSIVE RStrip(_)
RStrip(x) == IF x # "" /\ SubSeq(x, Len(x), Len(x)) = " "
             THEN RStrip(SubSeq(x, 1, Len(x) - 1)) ELSE x

RECURSIVE DigitsValue(_, _)
DigitsValue(x, acc) == IF x = "" THEN acc
                       ELSE DigitsValue(Tail(x), acc * 10 + DigitVal(Head(x)))

\* the digits of int(x), after blanks and sign
ParseDigits(body, negative) ==
    IF body = "" \/ \E i \in 1..Len(body) : ~IsDigit(SubSeq(body, i, i))
    THEN Raise("ValueError")
    ELSE Ok(IntV(IF negative THEN -DigitsValue(body, 0) ELSE DigitsValue(body, 0)))

\* the optional sign of int(x)
ParseSigned(t) ==
    IF t # "" /\ Head(t) \in {"-", "+"} THEN ParseDigits(Tail(t), Head(t) = "-")
    ELSE ParseDigits(t, FALSE)

\* int(x) for a str x: surrounding blanks, an optional sign, then decimal digits;
\* anything else is a ValueError
PyInt(x) == ParseSigned(RStrip(LStrip(x)))

-----------------------------------------------------------------------------
(* datetime.fromtimestamp(ts).strftime(...) *)

SecondsPerDay == 86400

Pad2(n) == IF n < 10 THEN "0" \o NatToStr(n) ELSE NatToStr(n)

\* the proleptic Gregorian date of a day number counted from 1970-01-01
\* (era: the 400-year cycle; doe, yoe, doy: day of era, year of era, day of year;
\* mp: the month counted from March)
CivilOfMonth(era, yoe, doy, mp) ==
    [y |-> yoe + era * 400 + (IF mp >= 10 THEN 1 ELSE 0),
     m |-> IF mp < 10 THEN mp + 3 ELSE mp - 9,
     d |-> doy - (153 * mp + 2) \div 5 + 1]

CivilOfYear(era, doe, yoe) ==
    CivilOfMonth(era, yoe, doe - (365 * yoe + yoe \div 4 - yoe \div 100),
                 (5 * (doe - (365 * yoe + yoe \div 4 - yoe \div 100)) + 2) \div 153)

CivilOfEra(era, doe) ==
    CivilOfYear(era, doe, (doe - doe \div 1460 + doe \div 36524 - doe \div 146096) \div 365)

CivilFromDays(days) ==
    CivilOfEra((days + 719468) \div 146097,
               (days + 719468) - ((days + 719468) \div 146097) * 146097)

\* strftime("%Y-%m-%d") of a local time
DateOf(c) == IntToStr(c.y) \o "-" \o Pad2(c.m) \o "-" \o Pad2(c.d)

DateText(local) == DateOf(CivilFromDays(local \div SecondsPerDay))

\* strftime("%H:%M:%S") of a local time
ClockOf(sod) ==
    Pad2(sod \div 3600) \o ":" \o Pad2((sod % 3600) \div 60) \o ":" \o Pad2(sod % 60)

ClockText(local) == ClockOf(local % SecondsPerDay)

\* datetime.fromtimestamp(n): the local time, or OSError where the platform's
\* localtime rejects the value (a negative one on win32)
FromTimestamp(n, zone, plat) ==
    IF plat = "win32" /\ n < 0 THEN Raise("OSError") ELSE Ok(IntV(n + zone))

\* strftime of the local time, when fromtimestamp gave one
Strftime(local, withClock) ==
    IF ~IsOk(local) THEN local
    ELSE Ok(StrV(IF withClock THEN DateText(local.val.i) \o " " \o ClockText(local.val.i)
                 ELSE DateText(local.val.i)))

\* the try block once int(ts) has run: ValueError and TypeError give ""
FormatParsed(parsed, withClock, zone, plat) ==
    IF ~IsOk(parsed) THEN Ok(StrV(""))
    ELSE IF parsed.val.t # "int" THEN Ok(StrV(""))
    ELSE Strftime(FromTimestamp(parsed.val.i, zone, plat), withClock)

\* the body shared by _format_timestamp and _format_date, up to the strftime format
FormatTs(ts, withClock, zone, plat) ==
    IF ~Truthy(ts) THEN Ok(StrV(""))
    ELSE FormatParsed(IF ts.t = "str" THEN PyInt(ts.s) ELSE Ok(ts), withClock, zone, plat)

_format_timestamp(ts, zone, plat) == FormatTs(ts, TRUE, zone, plat)

_format_date(ts, zone, plat) == FormatTs(ts, FALSE, zone, plat)

-----------------------------------------------------------------------------
(* Entity normalizer and view projector *)

\* the dict _format_task_summary builds, given the rendered due date
SummaryWith(task, due) ==
    IF ~IsOk(due) THEN due
    ELSE Ok([id |-> task["id"],
             title |-> task["title"],
             status |-> Get(task, "status_title", StrV("Not Started")),
             priority |-> Get(task, "priority_title", StrV("None")),
             assigned_to |-> Get(task, "assigned_to_fullname", StrV("Unassigned")),
             due_date |-> IF Truthy(due.val) THEN due.val ELSE StrV("No due date"),
             project_id |-> Get(task, "project_id", NoneV),
             url |-> Get(task, "url", StrV("")),
             comments |-> Get(task, "comments_count", IntV(0)),
             can_edit |-> Get(task, "can_edit", BoolV(FALSE))])

\* _format_task_summary: the minimal projection of a task dict
_format_task_summary(task, zone, plat) ==
    IF "id" \notin DOMAIN task \/ "title" \notin DOMAIN task THEN Raise("KeyError")
    ELSE SummaryWith(task, _format_date(Get(task, "due_ts", IntV(0)), zone, plat))

\* the dict _format_comment builds, given the rendered creation time
CommentWith(comment, created) ==
    IF ~IsOk(created) THEN created
    ELSE Ok(DictV([id |-> comment["id"],
                   description |-> comment["description"],
                   description_processed |-> Get(comment, "description_processed", StrV("")),
                   created_by_id |-> comment["created_by_id"],
                   created_at |-> created.val,
                   user_full_name |-> Get(comment, "user_full_name", StrV("")),
                   likes_count |-> Get(comment, "likes_count", IntV(0)),
                   liked |-> Get(comment, "f_liked", BoolV(FALSE)),
                   unread |-> Get(comment, "f_unread", BoolV(FALSE)),
                   can_edit |-> Get(comment, "can_edit", BoolV(FALSE)),
                   files |-> Get(comment, "files", ListV(<<>>)),
                   url |-> Get(comment, "url", StrV(""))]))

\* _format_comment
_format_comment(comment, zone, plat) ==
    IF {"id", "description", "created_by_id"} \ DOMAIN comment # {} THEN Raise("KeyError")
    ELSE CommentWith(comment, _format_timestamp(Get(comment, "created_ts", IntV(0)), zone, plat))

\* the fixed part of _format_task's result (lines 534-567)
FormatTaskBase(task, created, due, start, completed) ==
    [id |-> task["id"],
     title |-> task["title"],
     description |-> Get(task, "description", StrV("")),
     status |-> Get(task, "status", NoneV),
     status_title |-> Get(task, "status_title", StrV("")),
     priority |-> Get(task, "priority", IntV(0)),
     priority_title |-> Get(task, "priority_title", StrV("")),
     assigned_to_id |-> Get(task, "assigned_to_id", NoneV),
     assigned_to_fullname |-> Get(task, "assigned_to_fullname", StrV("")),
     created_by_id |-> Get(task, "created_by_id", NoneV),
     project_id |-> Get(task, "project_id", NoneV),
     task_group_id |-> Get(task, "task_group_id", NoneV),
     task_group_name |-> Get(task, "task_group_name", NoneV),
     created_at |-> created,
     due_date |-> due,
     start_date |-> start,
     completed_at |-> completed,
     comments_count |-> Get(task, "comments_count", IntV(0)),
     files_count |-> Get(task, "files_count", IntV(0)),
     url |-> Get(task, "url", StrV("")),
     order |-> Get(task, "order", IntV(0)),
     recurring_rule |-> Get(task, "r_rule", StrV("")),
     archived_list |-> Get(task, "f_archived_list", BoolV(FALSE)),
     hierarchy_level |-> Get(task, "h_level", IntV(0)),
     parent_id |-> Get(task, "h_parent_id", StrV("")),
     top_parent_id |-> Get(task, "h_top_id", StrV("")),
     advanced_subtask |-> Get(task, "f_adv_subtask", BoolV(FALSE)),
     can_delete |-> Get(task, "can_delete", BoolV(FALSE)),
     can_edit |-> Get(task, "can_edit", BoolV(FALSE)),
     can_assign |-> Get(task, "can_assign", BoolV(FALSE)),
     can_progress |-> Get(task, "can_progress", BoolV(FALSE)),
     can_comment |-> Get(task, "can_comment", BoolV(FALSE))]

\* if task.get(key): d[key] = v
SetIfPresent(d, task, key, v) == IF Truthy(Get(task, key, NoneV)) THEN DictSet(d, key, v) ELSE d

\* custom_fields and cf_tpl_id, when asked for and present (lines 569-572)
FormatTaskCf(task, base, include_custom_fields) ==
    IF include_custom_fields /\ Truthy(Get(task, "custom_fields", NoneV))
    THEN DictSet(DictSet(base, "custom_fields", task["custom_fields"]),
                 "cf_tpl_id", Get(task, "cf_tpl_id", NoneV))
    ELSE base

\* the optional part of _format_task's result (lines 569-583)
FormatTaskExtras(task, base, comments, include_custom_fields) ==
    SetIfPresent(
        SetIfPresent(
            SetIfPresent(FormatTaskCf(task, base, include_custom_fields),
                         task, "tags", Get(task, "tags", NoneV)),
            task, "comments", comments),
        task, "files", Get(task, "files", NoneV))

\* the exception of the first result that raised, if any
FirstRaised(results) ==
    LET failing == {i \in 1..Len(results) : ~IsOk(results[i])}
    IN  IF failing = {} THEN Ok(NoneV)
        ELSE results[CHOOSE i \in failing : \A j \in failing : i <= j]

\* the comprehension over task["comments"] (line 579)
FormatComments(task, zone, plat) ==
    IF ~Truthy(Get(task, "comments", NoneV)) THEN <<>>
    ELSE [i \in 1..Len(task["comments"].l) |->
             _format_comment(task["comments"].l[i].d, zone, plat)]

\* the dict literal and the optional keys, once every part is evaluated in order
FormatTaskWith(task, include_custom_fields, dates, comments) ==
    IF ~IsOk(FirstRaised(dates)) THEN FirstRaised(dates)
    ELSE IF ~IsOk(FirstRaised(comments)) THEN FirstRaised(comments)
    ELSE Ok(FormatTaskExtras(
                task,
                FormatTaskBase(task, dates[1].val, dates[2].val, dates[3].val, dates[4].val),
                ListV([i \in 1..Len(comments) |-> comments[i].val]),
                include_custom_fields))

\* _format_task: the detailed projection of a raw task record
_format_task(task, include_custom_fields, zone, plat) ==
    IF "id" \notin DOMAIN task \/ "title" \notin DOMAIN task THEN Raise("KeyError")
    ELSE FormatTaskWith(
            task, include_custom_fields,
            <<_format_timestamp(Get(task, "created_ts", IntV(0)), zone, plat),
              _format_date(Get(task, "due_ts", IntV(0)), zone, plat),
              _format_date(Get(task, "start_ts", IntV(0)), zone, plat),
              IF Truthy(Get(task, "completed_ts", NoneV))
              THEN _format_timestamp(Get(task, "completed_ts", IntV(0)), zone, plat)
              ELSE Ok(NoneV)>>,
            FormatComments(task, zone, plat))

-----------------------------------------------------------------------------
(* json.dumps, and the decoding the upstream applies to the 'data' form field *)

\* dict keys in the order the operations insert them (json.dumps keeps insertion order)
JsonKeyOrder ==
    <<"title", "project_id", "description", "task_group_id", "priority", "assigned_to_id",
      "due_date", "start_date", "status", "r_rule", "h_parent_id", "attached_ids",
      "cf_tpl_id", "custom_fields", "cf_id", "value",
      "project_name", "project_description", "project_color", "group_id", "group_name",
      "f_active", "f_only_users_update", "changed_users", "added", "updated", "deleted",
      "user_id", "email", "password", "first_name", "last_name", "confirmation_password",
      "timezone">>

RECURSIVE JsonDumps(_)
RECURSIVE JsonJoin(_, _)
JsonJoin(items, i) ==
    IF i > Len(items) THEN ""
    ELSE JsonDumps(items[i]) \o (IF i < Len(items) THEN ", " ELSE "") \o JsonJoin(items, i + 1)

RECURSIVE JsonMembers(_, _, _)
JsonMembers(d, i, first) ==
    IF i > Len(JsonKeyOrder) THEN ""
    ELSE IF JsonKeyOrder[i] \notin DOMAIN d THEN JsonMembers(d, i + 1, first)
    ELSE (IF first THEN "" ELSE ", ")
            \o "\"" \o JsonKeyOrder[i] \o "\": " \o JsonDumps(d[JsonKeyOrder[i]])
            \o JsonMembers(d, i + 1, FALSE)

\* json.dumps(v) with the default separators (texts here hold no character to escape)
JsonDumps(v) ==
    CASE v.t = "str" -> "\"" \o v.s \o "\""
      [] v.t = "int" -> IntToStr(v.i)
      [] v.t = "bool" -> (IF v.b THEN "true" ELSE "false")
      [] v.t = "none" -> "null"
      [] v.t = "list" -> "[" \o JsonJoin(v.l, 1) \o "]"
      [] v.t = "dict" -> "{" \o JsonMembers(v.d, 1, TRUE) \o "}"

\* a parse step: the value read and the text left, or a failure
Parsed(v, rest) == [ok |-> TRUE, v |-> v, rest |-> rest]
ParseFail == [ok |-> FALSE, v |-> NoneV, rest |-> ""]

StartsWith(x, prefix) == Len(x) >= Len(prefix) /\ SubSeq(x, 1, Len(prefix)) = prefix

Drop(x, n) == SubSeq(x, n + 1, Len(x))

\* the length of the leading run of x holding no double quote
RECURSIVE QuoteFree(_)
QuoteFree(x) == IF x = "" \/ Head(x) = "\"" THEN 0 ELSE 1 + QuoteFree(Tail(x))

\* the length of the leading run of digits of x
RECURSIVE DigitRun(_)
DigitRun(x) == IF x = "" \/ ~IsDigit(Head(x)) THEN 0 ELSE 1 + DigitRun(Tail(x))

\* a JSON string at the head of x (after its opening quote)
ParseString(x) ==
    LET n == QuoteFree(x)
    IN  IF n = Len(x) THEN ParseFail ELSE Parsed(StrV(SubSeq(x, 1, n)), Drop(x, n + 1))

ParseNumber(x) ==
    LET neg == StartsWith(x, "-")
        body == IF neg THEN Tail(x) ELSE x
        n == DigitRun(body)
        val == DigitsValue(SubSeq(body, 1, n), 0)
    IN  IF n = 0 THEN ParseFail ELSE Parsed(IntV(IF neg THEN -val ELSE val), Drop(body, n))

RECURSIVE ParseValue(_)
RECURSIVE ParseItems(_, _)
RECURSIVE ParseMembers(_, _)

\* the items of a JSON array after '[' (or after a ','), read onto acc
ParseItems(x, acc) ==
    LET item == ParseValue(x)
        rest == LStrip(item.rest)
    IN  IF ~item.ok THEN ParseFail
        ELSE IF StartsWith(rest, ",") THEN ParseItems(Tail(rest), Append(acc, item.v))
        ELSE IF StartsWith(rest, "]") THEN Parsed(ListV(Append(acc, item.v)), Tail(rest))
        ELSE ParseFail

\* the members of a JSON object after '{' (or after a ','), read onto acc
ParseMembers(x, acc) ==
    LET y == LStrip(x)
        key == IF StartsWith(y, "\"") THEN ParseString(Tail(y)) ELSE ParseFail
        afterKey == LStrip(key.rest)
        member == IF key.ok /\ StartsWith(afterKey, ":")
                  THEN ParseValue(Tail(afterKey)) ELSE ParseFail
        rest == LStrip(member.rest)
        read == DictSet(acc, key.v.s, member.v)
    IN  IF ~member.ok THEN ParseFail
        ELSE IF StartsWith(rest, ",") THEN ParseMembers(Tail(rest), read)
        ELSE IF StartsWith(rest, "}") THEN Parsed(DictV(read), Tail(rest))
        ELSE ParseFail

ParseValue(x) ==
    LET y == LStrip(x)
    IN  CASE StartsWith(y, "\"") -> ParseString(Tail(y))
          [] StartsWith(y, "true") -> Parsed(BoolV(TRUE), Drop(y, 4))
          [] StartsWith(y, "false") -> Parsed(BoolV(FALSE), Drop(y, 5))
          [] StartsWith(y, "null") -> Parsed(NoneV, Drop(y, 4))
          [] StartsWith(y, "[") ->
                (IF StartsWith(LStrip(Tail(y)), "]")
                 THEN Parsed(ListV(<<>>), Tail(LStrip(Tail(y))))
                 ELSE ParseItems(Tail(y), <<>>))
          [] StartsWith(y, "{") ->
                (IF StartsWith(LStrip(Tail(y)), "}")
                 THEN Parsed(DictV(EmptyDict), Tail(LStrip(Tail(y))))
                 ELSE ParseMembers(Tail(y), EmptyDict))
          [] OTHER -> ParseNumber(y)

\* json.loads(x): the decoded value, or a failure on malformed or trailing text
JsonLoads(x) ==
    LET r == ParseValue(x)
    IN  IF r.ok /\ LStrip(r.rest) = "" THEN Ok(r.v) ELSE Raise("JSONDecodeError")

-----------------------------------------------------------------------------
(* Signer and request dispatcher *)

BASE_URL == "https://freedcamp.com/api/v1"

\* the configured credentials (FreedcampConfig)
ApiKey == "key-1"
ApiSecret == "secret-1"

\* hmac.new(secret, message, sha1).hexdigest(), kept symbolic: a digest names its inputs
HmacSha1Hex(secret, message) == "hmac_sha1(" \o secret \o "," \o message \o ")"

\* a signer that signs once, at startup, and hands out that signature ever after
GenerateAuthOnce(key, secret, clock) ==
    [timestamp |-> StrV("1699999200"),
     hash |-> StrV(HmacSha1Hex(secret, key \o "1699999200"))]

\* a signer that mixes the number of requests sent so far into the hash
GenerateAuthCounting(key, secret, clock) ==
    [timestamp |-> StrV(IntToStr(clock)),
     hash |-> StrV(HmacSha1Hex(secret, key \o IntToStr(clock) \o IntToStr(Len(sent))))]

\* _generate_auth with time.time() read as clock
_generate_auth(key, secret, clock) ==
    [timestamp |-> StrV(IntToStr(clock)),
     hash |-> StrV(HmacSha1Hex(secret, key \o IntToStr(clock)))]

\* _get_headers
_get_headers(key) ==
    ("X-API-KEY" :> StrV(key)) @@ ("Content-Type" :> StrV("application/x-www-form-urlencoded"))

\* params.update(auth_params) when params is truthy, else params = auth_params
MergeAuth(params, auth) == IF Truthy(params) THEN auth @@ params.d ELSE auth

\* the request _make_request hands to the HTTP client (lines 104-125), or the
\* exception it raises without sending one (an unknown verb leaves response unbound)
_make_request(method, endpoint, params, data, clock) ==
    LET query == MergeAuth(params, _generate_auth(ApiKey, ApiSecret, clock))
        request == [method |-> method,
                    url |-> BASE_URL \o "/" \o endpoint,
                    params |-> query,
                    headers |-> _get_headers(ApiKey),
                    form |-> IF method = "POST" /\ Truthy(data)
                             THEN DictV([data |-> StrV(JsonDumps(data))])
                             ELSE NoneV]
    IN  IF method \in {"GET", "POST", "DELETE"} THEN Ok(request)
        ELSE Raise("UnboundLocalError")

\* what the HTTP client gives back for a request: no answer at all, or a status
\* with a body that is JSON (a value) or is not
TransportError == [kind |-> "transport_error"]
HttpResponse(status, body) == [kind |-> "http", status |-> status, body |-> body]
NotJson == [t |-> "not_json"]

\* response.raise_for_status(); return response.json() (lines 127-134)
ReceiveResponse(resp) ==
    IF resp.kind = "transport_error" THEN Raise("ConnectError")
    ELSE IF resp.status < 200 \/ resp.status >= 300 THEN Raise("HTTPStatusError")
    ELSE IF resp.body = NotJson THEN Raise("JSONDecodeError")
    ELSE Ok(resp.body)

\* x.get(k) on a decoded JSON object
Field(v, k) == Get(v.d, k, NoneV)

-----------------------------------------------------------------------------
(* Filter/query builders: the arguments each operation passes to _make_request *)

Call(method, endpoint, params, data) ==
    [method |-> method, endpoint |-> endpoint, params |-> params, data |-> data]

\* for x in items: d[key] = x
RECURSIVE AssignEach(_, _, _, _)
AssignEach(d, key, items, i) ==
    IF i > Len(items) THEN d ELSE AssignEach(DictSet(d, key, items[i]), key, items, i + 1)

\* if v: d[key] = v
SetIfTruthy(d, key, v) == IF Truthy(v) THEN DictSet(d, key, v) ELSE d

\* if v is not None: d[key] = v
SetIfGiven(d, key, v) == IF v # NoneV THEN DictSet(d, key, v) ELSE d

\* if flag: d[key] = "1"
SetFlag(d, key, flag) == IF Truthy(flag) THEN DictSet(d, key, StrV("1")) ELSE d

\* params = {"limit": str(limit), "offset": str(offset)}
PageParams(a) == [limit |-> StrV(IntToStr(a.limit.i)), offset |-> StrV(IntToStr(a.offset.i))]

\* the status[] / assigned_to_id[] / created_by_id[] loops of get_all_tasks (lines 627-638)
AllTasksSetFilters(a, d) ==
    LET st == IF Truthy(a.status_filter)
              THEN AssignEach(d, "status[]", a.status_filter.l, 1) ELSE d
        asg == IF Truthy(a.assigned_to_ids)
               THEN AssignEach(st, "assigned_to_id[]", a.assigned_to_ids.l, 1) ELSE st
    IN  IF Truthy(a.created_by_ids)
        THEN AssignEach(asg, "created_by_id[]", a.created_by_ids.l, 1) ELSE asg

\* the date-range keys of get_all_tasks (lines 641-648)
AllTasksSetDates(a, d) ==
    SetIfTruthy(SetIfTruthy(SetIfTruthy(SetIfTruthy(d,
        "due_date[from]", a.due_date_from),
        "due_date[to]", a.due_date_to),
        "created_date[from]", a.created_date_from),
        "created_date[to]", a.created_date_to)

\* the query of get_all_tasks (lines 621-663)
AllTasksParams(a) ==
    LET filtered == AllTasksSetDates(a, AllTasksSetFilters(a, PageParams(a)))
        listed == DictSet(SetFlag(filtered, "f_with_archived", a.include_archived),
                          "lists_status", a.lists_status)
        ordered == IF Truthy(a.order_by)
                   THEN DictSet(listed, "order[" \o a.order_by.s \o "]", a.order_direction)
                   ELSE listed
    IN  SetFlag(SetFlag(ordered, "f_cf", a.include_custom_fields),
                "f_include_tags", a.include_tags)

get_all_tasks_call(a) == Call("GET", "tasks", DictV(AllTasksParams(a)), NoneV)

\* the query of get_project_tasks (lines 699-716)
ProjectTasksParams(a) ==
    LET st == CASE a.status = StrV("incomplete") -> DictSet(PageParams(a), "status[]", StrV("0"))
                [] a.status = StrV("complete") -> DictSet(PageParams(a), "status[]", StrV("1"))
                [] a.status = StrV("in_progress") -> DictSet(PageParams(a), "status[]", StrV("2"))
                [] OTHER -> PageParams(a)
    IN  SetFlag(SetFlag(st, "f_cf", a.include_custom_fields), "f_include_tags", a.include_tags)

get_project_tasks_call(a) ==
    Call("GET", "tasks?project_id=" \o a.project_id.s, DictV(ProjectTasksParams(a)), NoneV)

\* the query of get_user_tasks (lines 751-762)
UserTasksParams(a) ==
    LET base == DictSet(PageParams(a), "assigned_to_id[]", a.user_id)
        open == IF ~Truthy(a.include_completed)
                THEN DictSet(base, "status[]", ListV(<<StrV("0"), StrV("2")>>)) ELSE base
    IN  SetFlag(open, "f_cf", a.include_custom_fields)

get_user_tasks_call(a) == Call("GET", "tasks", DictV(UserTasksParams(a)), NoneV)

\* a create_task body that writes the description whether or not one was given
CreateTaskDataEager(a) ==
    [title |-> a.title, project_id |-> a.project_id, description |-> a.description]

\* the body of create_task (lines 821-848)
CreateTaskData(a) ==
    LET d1 == SetIfTruthy(SetIfTruthy([title |-> a.title, project_id |-> a.project_id],
                  "description", a.description), "task_group_id", a.task_group_id)
        d2 == IF a.priority # NoneV
              THEN DictSet(d1, "priority", StrV(IntToStr(a.priority.i))) ELSE d1
        d3 == SetIfTruthy(SetIfTruthy(SetIfTruthy(SetIfTruthy(SetIfTruthy(SetIfTruthy(d2,
                  "assigned_to_id", a.assigned_to_id),
                  "due_date", a.due_date),
                  "start_date", a.start_date),
                  "r_rule", a.recurring_rule),
                  "h_parent_id", a.parent_task_id),
                  "attached_ids", a.attached_file_ids)
    IN  IF Truthy(a.custom_fields) /\ Truthy(a.cf_template_id)
        THEN DictSet(DictSet(d3, "cf_tpl_id", a.cf_template_id),
                     "custom_fields", a.custom_fields)
        ELSE d3

create_task_call(a) == Call("POST", "tasks", NoneV, DictV(CreateTaskData(a)))

\* if v is not None: d[key] = str(v)
SetStrIfGiven(d, key, v) == IF v # NoneV THEN DictSet(d, key, StrV(IntToStr(v.i))) ELSE d

\* the plain fields of the update_task body (lines 876-897)
UpdateTaskFields(a) ==
    SetIfTruthy(SetIfGiven(SetStrIfGiven(SetIfGiven(SetIfGiven(SetIfGiven(
    SetStrIfGiven(SetIfTruthy(SetIfGiven(SetIfTruthy(EmptyDict,
        "title", a.title),
        "description", a.description),
        "task_group_id", a.task_group_id),
        "priority", a.priority),
        "assigned_to_id", a.assigned_to_id),
        "due_date", a.due_date),
        "start_date", a.start_date),
        "status", a.status),
        "h_parent_id", a.parent_task_id),
        "attached_ids", a.attached_file_ids)

\* the custom fields of the update_task body (lines 900-903)
UpdateTaskCf(a, d) ==
    IF a.custom_fields # NoneV
    THEN DictSet(SetIfGiven(d, "cf_tpl_id", a.cf_template_id), "custom_fields", a.custom_fields)
    ELSE d

\* the body of update_task (lines 876-903)
UpdateTaskData(a) == UpdateTaskCf(a, UpdateTaskFields(a))

update_task_call(a) ==
    Call("POST", "tasks/" \o a.task_id.s, NoneV, DictV(UpdateTaskData(a)))

delete_task_call(a) == Call("DELETE", "tasks/" \o a.task_id.s, NoneV, NoneV)

\* the body of update_project (lines 477-505)
UpdateProjectData(a) ==
    SetIfTruthy(
        IF ~Truthy(a.only_update_users)
        THEN SetIfGiven(SetIfTruthy(SetIfTruthy(SetIfTruthy(SetIfGiven(SetIfTruthy(EmptyDict,
                 "project_name", a.name),
                 "project_description", a.description),
                 "project_color", a.color),
                 "group_id", a.group_id),
                 "group_name", a.group_name),
                 "f_active", a.active)
        ELSE [f_only_users_update |-> BoolV(TRUE)],
        "changed_users",
        DictV(SetIfTruthy(SetIfTruthy(SetIfTruthy(EmptyDict,
                  "added", a.users_to_add),
                  "updated", a.users_to_update),
                  "deleted", a.users_to_delete)))

update_project_call(a) ==
    Call("POST", "projects/" \o a.project_id.s, NoneV, DictV(UpdateProjectData(a)))

\* the body of update_current_user (lines 993-1006)
UpdateCurrentUserData(a) ==
    SetIfTruthy(SetIfTruthy(SetIfTruthy(SetIfTruthy(SetIfTruthy(SetIfTruthy(EmptyDict,
        "email", a.email),
        "password", a.password),
        "first_name", a.first_name),
        "last_name", a.last_name),
        "confirmation_password", a.confirmation_password),
        "timezone", a.timezone)

update_current_user_call(a) ==
    Call("POST", "users/current", NoneV, DictV(UpdateCurrentUserData(a)))

\* update_comment posting its change to the collection instead of the comment
PostToCollection(a) ==
    Call("POST", "comments", NoneV, DictV([description |-> a.description]))

\* update_comment up to its request (lines 1057-1059)
update_comment_call(a) ==
    Call("POST", "comments/" \o a.comment_id.s, NoneV, DictV([description |-> a.description]))

\* the query of get_all_projects (lines 333-335)
get_all_projects_call(a) ==
    Call("GET", "projects",
         DictV(SetFlag(EmptyDict, "f_recent_projects_ids", a.include_recent)), NoneV)

get_project_details_call(project_id) == Call("GET", "projects/" \o project_id.s, NoneV, NoneV)

get_user_details_call(user_id) == Call("GET", "users/" \o user_id.s, NoneV, NoneV)

-----------------------------------------------------------------------------
(* What each operation makes of the decoded response envelope *)

\* a loop that leaves out the items f raises on and keeps the others
RECURSIVE MapResultsSkipping(_, _, _)
MapResultsSkipping(results, i, acc) ==
    IF i > Len(results) THEN Ok(ListV(acc))
    ELSE IF ~IsOk(results[i]) THEN MapResultsSkipping(results, i + 1, acc)
    ELSE MapResultsSkipping(results, i + 1, Append(acc, results[i].val))

\* [f(x) for x in items], or the first exception f raises
RECURSIVE MapResults(_, _, _)
MapResults(results, i, acc) ==
    IF i > Len(results) THEN Ok(ListV(acc))
    ELSE IF ~IsOk(results[i]) THEN results[i]
    ELSE MapResults(results, i + 1, Append(acc, results[i].val))

\* response["data"][key] when response.get("data") and response["data"].get(key)
\* are truthy, else the default the operation starts from
DataField(response, key, default) ==
    IF Truthy(Field(response, "data")) /\ Truthy(Field(Field(response, "data"), key))
    THEN Field(Field(response, "data"), key) ELSE default

\* a formatted dict as a value
AsDict(r) == IF IsOk(r) THEN Ok(DictV(r.val)) ELSE r

\* the loop over response["data"]["tasks"] (lines 681-684)
FormatTasks(raw, include_custom_fields, zone, plat) ==
    MapResults([i \in 1..Len(raw) |->
                   AsDict(_format_task(raw[i].d, include_custom_fields, zone, plat))], 1, <<>>)

\* the returned dict (lines 686-690)
TaskListWith(tasks, meta, templates) ==
    IF ~IsOk(tasks) THEN tasks
    ELSE Ok(DictV([tasks |-> tasks.val, meta |-> meta, cf_templates |-> templates]))

\* the tail shared by get_all_tasks, get_project_tasks and get_user_tasks
\* (lines 667-690, 720-743, 766-789)
TaskListResult(response, include_custom_fields, zone, plat) ==
    TaskListWith(FormatTasks(DataField(response, "tasks", ListV(<<>>)).l,
                             Truthy(include_custom_fields), zone, plat),
                 DataField(response, "meta", DictV(EmptyDict)),
                 DataField(response, "cf_templates", ListV(<<>>)))

\* the dict literal of simplified_project, given the rendered creation time
SimplifiedWith(project, group_name, created) ==
    IF ~IsOk(created) THEN created
    ELSE Ok(DictV([id |-> project["id"],
                   name |-> project["project_name"],
                   description |-> Get(project, "project_description", StrV("")),
                   color |-> Get(project, "project_color", StrV("")),
                   group_name |-> group_name,
                   group_id |-> Get(project, "group_id", StrV("")),
                   active |-> Get(project, "f_active", BoolV(TRUE)),
                   created_at |-> created.val,
                   url |-> Get(project, "url", StrV("")),
                   users_count |-> IntV(Len(Get(project, "users", ListV(<<>>)).l)),
                   tasks_count |-> Get(project, "tasks_count", IntV(0))]))

\* simplified_project of get_all_projects (lines 351-363)
SimplifiedProject(project, group_name, zone, plat) ==
    IF "id" \notin DOMAIN project \/ "project_name" \notin DOMAIN project
    THEN Raise("KeyError")
    ELSE SimplifiedWith(project, group_name,
                        _format_timestamp(Get(project, "created_ts", IntV(0)), zone, plat))

\* a grouping that files projects without group_name under the empty name,
\* as get_project_details reports them
GroupNameOrEmpty(project) == Get(project, "group_name", StrV(""))

\* project.get("group_name", "Ungrouped") (line 349)
GroupNameOf(project) == Get(project, "group_name", StrV("Ungrouped"))

\* a grouping that opens a new group for every project
AddAsNewGroup(grouped, group_name, simplified) ==
    Append(grouped, [group |-> group_name, projects |-> <<simplified>>])

\* grouped_projects[group_name].append(simplified), creating the group on first use
\* (lines 365-367); grouped keeps the dict's insertion order
AddToGroup(grouped, group_name, simplified) ==
    IF \E j \in 1..Len(grouped) : grouped[j].group = group_name
    THEN [j \in 1..Len(grouped) |->
            IF grouped[j].group = group_name
            THEN [grouped[j] EXCEPT !.projects = Append(@, simplified)]
            ELSE grouped[j]]
    ELSE Append(grouped, [group |-> group_name, projects |-> <<simplified>>])

\* the loop over response["data"]["projects"] (lines 348-367)
RECURSIVE GroupProjects(_, _, _, _, _)
RECURSIVE GroupNext(_, _, _, _, _, _)
GroupProjects(projects, i, grouped, zone, plat) ==
    IF i > Len(projects) THEN Ok(grouped)
    ELSE GroupNext(projects, i, grouped,
                   SimplifiedProject(projects[i].d, GroupNameOf(projects[i].d), zone, plat),
                   zone, plat)

\* one turn of the loop, given the simplified project
GroupNext(projects, i, grouped, simplified, zone, plat) ==
    IF ~IsOk(simplified) THEN simplified
    ELSE GroupProjects(projects, i + 1,
                       AddToGroup(grouped, GroupNameOf(projects[i].d), simplified.val),
                       zone, plat)

\* [{"group": group, "projects": projects} for group, projects in ...items()]
GroupList(grouped) ==
    [j \in 1..Len(grouped) |->
        DictV([group |-> grouped[j].group, projects |-> ListV(grouped[j].projects)])]

\* result, with the recent ids appended when asked for and present (lines 369-374)
AllProjectsWith(grouped, include_recent, recent) ==
    IF ~IsOk(grouped) THEN grouped
    ELSE IF Truthy(include_recent) /\ Truthy(recent)
    THEN Ok(ListV(Append(GroupList(grouped.val), DictV([recent_project_ids |-> recent]))))
    ELSE Ok(ListV(GroupList(grouped.val)))

\* get_all_projects after its request (lines 339-374)
AllProjectsResult(response, include_recent, zone, plat) ==
    AllProjectsWith(
        GroupProjects(DataField(response, "projects", ListV(<<>>)).l, 1, <<>>, zone, plat),
        include_recent,
        IF Truthy(include_recent)
        THEN DataField(response, "recent_project_ids", ListV(<<>>)) ELSE ListV(<<>>))

\* the users list of get_project_details (lines 384-394)
ProjectUser(user) ==
    IF "user_id" \notin DOMAIN user \/ "full_name" \notin DOMAIN user THEN Raise("KeyError")
    ELSE Ok(DictV([user_id |-> user["user_id"],
                   full_name |-> user["full_name"],
                   email |-> Get(user, "email", NoneV),
                   role_id |-> Get(user, "role_id", NoneV),
                   role_name |-> Get(user, "role_name", NoneV),
                   avatar_url |-> Get(user, "avatar_url", NoneV)]))

\* one notification dict, given the rendered creation time
NotificationWith(notif, created) ==
    IF ~IsOk(created) THEN created
    ELSE Ok(DictV([id |-> Get(notif, "id", NoneV),
                   type |-> Get(notif, "type", NoneV),
                   message |-> Get(notif, "message", NoneV),
                   created_at |-> created.val]))

\* the notifications list of get_project_details (lines 397-405)
ProjectNotification(notif, zone, plat) ==
    NotificationWith(notif, _format_timestamp(Get(notif, "created_ts", IntV(0)), zone, plat))

\* project[key] when project.get(key) is truthy, else no items
ListOf(project, key) == IF Truthy(Get(project, key, NoneV)) THEN project[key].l ELSE <<>>

\* the returned dict (lines 407-422), given the lists built before it
ProjectDetailsWith(project, users, notifs, created) ==
    IF ~IsOk(users) THEN users
    ELSE IF ~IsOk(notifs) THEN notifs
    ELSE IF "id" \notin DOMAIN project \/ "project_name" \notin DOMAIN project
    THEN Raise("KeyError")
    ELSE IF ~IsOk(created) THEN created
    ELSE Ok(DictV([id |-> project["id"],
                   name |-> project["project_name"],
                   description |-> Get(project, "project_description", StrV("")),
                   color |-> Get(project, "project_color", StrV("")),
                   group_name |-> Get(project, "group_name", StrV("")),
                   group_id |-> Get(project, "group_id", StrV("")),
                   active |-> Get(project, "f_active", BoolV(TRUE)),
                   created_at |-> created.val,
                   url |-> Get(project, "url", StrV("")),
                   users |-> users.val,
                   notifications |-> notifs.val,
                   can_add_tasks |-> Get(project, "f_can_add_tasks", BoolV(FALSE)),
                   advanced_subtasks |-> Get(project, "f_subtasks_adv", BoolV(FALSE)),
                   todo_view_type |-> Get(project, "todo_view_type", StrV("default"))]))

\* the first project of the envelope, formatted (lines 381-422)
ProjectDetailsOf(project, zone, plat) ==
    ProjectDetailsWith(
        project,
        MapResults([i \in 1..Len(ListOf(project, "users")) |->
                       ProjectUser(ListOf(project, "users")[i].d)], 1, <<>>),
        MapResults([i \in 1..Len(ListOf(project, "notifications")) |->
                       ProjectNotification(ListOf(project, "notifications")[i].d, zone, plat)],
                   1, <<>>),
        _format_timestamp(Get(project, "created_ts", IntV(0)), zone, plat))

\* get_project_details after its request (lines 380-424)
ProjectDetailsResult(response, zone, plat) ==
    IF ~Truthy(DataField(response, "projects", NoneV)) THEN Ok(DictV(EmptyDict))
    ELSE ProjectDetailsOf(Field(Field(response, "data"), "projects").l[1].d, zone, plat)

\* the returned dict of get_user_details (lines 973-981)
UserDetailsOf(user) ==
    IF "user_id" \notin DOMAIN user \/ "full_name" \notin DOMAIN user
    THEN Raise("KeyError")
    ELSE Ok(DictV([user_id |-> user["user_id"],
                   full_name |-> user["full_name"],
                   first_name |-> Get(user, "first_name", StrV("")),
                   last_name |-> Get(user, "last_name", StrV("")),
                   email |-> Get(user, "email", NoneV),
                   avatar_url |-> Get(user, "avatar_url", NoneV),
                   timezone |-> Get(user, "timezone", NoneV)]))

\* get_user_details after its request (lines 971-983)
UserDetailsResult(response) ==
    IF ~Truthy(DataField(response, "users", NoneV)) THEN Ok(DictV(EmptyDict))
    ELSE UserDetailsOf(Field(Field(response, "data"), "users").l[1].d)

\* create_task after its request (lines 852-859)
CreateTaskResult(response) ==
    IF Truthy(Field(response, "data"))
    THEN Ok(DictV([success |-> BoolV(TRUE), task |-> Field(response, "data"),
                   message |-> StrV("Task created successfully")]))
    ELSE Ok(DictV([success |-> BoolV(FALSE), message |-> StrV("Failed to create task")]))

\* update_task after its request (lines 907-914)
UpdateTaskResult(response) ==
    IF Truthy(Field(response, "data"))
    THEN Ok(DictV([success |-> BoolV(TRUE), task |-> Field(response, "data"),
                   message |-> StrV("Task updated successfully")]))
    ELSE Ok(DictV([success |-> BoolV(FALSE), message |-> StrV("Failed to update task")]))

\* update_project after its request (lines 509-516)
UpdateProjectResult(response) ==
    IF Truthy(Field(response, "data"))
    THEN Ok(DictV([success |-> BoolV(TRUE), project |-> Field(response, "data"),
                   message |-> StrV("Project updated successfully")]))
    ELSE Ok(DictV([success |-> BoolV(FALSE), message |-> StrV("Failed to update project")]))

\* update_current_user after its request (lines 1010-1024)
UpdateCurrentUserResult(response) ==
    IF ~Truthy(Field(response, "data"))
    THEN Ok(DictV([success |-> BoolV(FALSE), message |-> StrV("Failed to update user")]))
    ELSE IF Truthy(Field(Field(response, "data"), "token"))
    THEN Ok(DictV([success |-> BoolV(TRUE),
                   user |-> IF Truthy(Field(Field(response, "data"), "users"))
                            THEN Field(Field(response, "data"), "users").l[1]
                            ELSE DictV(EmptyDict),
                   message |-> StrV("User updated successfully - New authentication token provided"),
                   new_token |-> Field(Field(response, "data"), "token")]))
    ELSE Ok(DictV([success |-> BoolV(TRUE),
                   user |-> IF Truthy(Field(Field(response, "data"), "users"))
                            THEN Field(Field(response, "data"), "users").l[1]
                            ELSE DictV(EmptyDict),
                   message |-> StrV("User updated successfully")]))

\* update_comment after its request (lines 1061-1069), given the formatted comment
UpdatedComment(formatted) ==
    IF ~IsOk(formatted) THEN formatted
    ELSE Ok(DictV([success |-> BoolV(TRUE), comment |-> DictV(formatted.val),
                   message |-> StrV("Comment updated successfully")]))

UpdateCommentResult(response, zone, plat) ==
    IF Truthy(DataField(response, "comments", NoneV))
    THEN UpdatedComment(_format_comment(Field(Field(response, "data"), "comments").l[1].d,
                                        zone, plat))
    ELSE Ok(DictV([success |-> BoolV(FALSE), message |-> StrV("Failed to update comment")]))

\* delete_task after its request (lines 920-926)
DeleteTaskResult(response) ==
    IF Truthy(Field(response, "data"))
    THEN Ok(DictV([success |-> BoolV(TRUE), message |-> StrV("Task deleted successfully")]))
    ELSE Ok(DictV([success |-> BoolV(FALSE), message |-> StrV("Failed to delete task")]))

-----------------------------------------------------------------------------
(* View projector: the summary text of a task list, kept as its parts *)

IsLeap(y) == (y % 4 = 0 /\ y % 100 # 0) \/ y % 400 = 0

DaysInMonth(y, m) ==
    CASE m = 2 -> (IF IsLeap(y) THEN 29 ELSE 28)
      [] m \in {4, 6, 9, 11} -> 30
      [] OTHER -> 31

\* the day number, counted from 1970-01-01, of a proleptic Gregorian date
\* (yy: the year counted from March; doy: the day of that year)
DaysOfEra(era, yoe, doy) ==
    era * 146097 + yoe * 365 + yoe \div 4 - yoe \div 100 + doy - 719468

DaysOfShifted(yy, doy) == DaysOfEra(yy \div 400, yy - (yy \div 400) * 400, doy)

DaysFromCivil(y, m, d) ==
    DaysOfShifted(IF m <= 2 THEN y - 1 ELSE y,
                  (153 * (IF m > 2 THEN m - 3 ELSE m + 9) + 2) \div 5 + d - 1)

\* the day number of year y, month m, day d when the calendar has that day
ValidDate(y, m, d) ==
    IF y >= 1 /\ m \in 1..12 /\ d >= 1 /\ d <= DaysInMonth(y, m)
    THEN Ok(IntV(DaysFromCivil(y, m, d))) ELSE Raise("ValueError")

\* datetime.strptime(x, "%Y-%m-%d").date() for the zero-padded form strftime writes,
\* as a day number; any other text is a ValueError
ParseDate(x) ==
    IF /\ Len(x) = 10
       /\ SubSeq(x, 5, 5) = "-" /\ SubSeq(x, 8, 8) = "-"
       /\ \A i \in {1, 2, 3, 4, 6, 7, 9, 10} : IsDigit(SubSeq(x, i, i))
    THEN ValidDate(DigitsValue(SubSeq(x, 1, 4), 0), DigitsValue(SubSeq(x, 6, 7), 0),
                   DigitsValue(SubSeq(x, 9, 10), 0))
    ELSE Raise("ValueError")

\* datetime.now().date() as a day number
Today(clock, zone) == (clock + zone) \div SecondsPerDay

FirstN(items, n) == SubSeq(items, 1, IF Len(items) < n THEN Len(items) ELSE n)

Among(x, items) == \E j \in 1..Len(items) : items[j] = x

\* the parsed due date of a summary task (lines 213-216); a task the urgency
\* check skips has none
DueDay(due) ==
    IF Truthy(due) /\ due # StrV("No due date") /\ due.t = "str" THEN ParseDate(due.s)
    ELSE Raise("ValueError")

DaysFrom(day, today) == IF IsOk(day) THEN Ok(IntV(day.val.i - today)) ELSE day

\* (due_date - today).days of a summary task, when its due date parses (lines 213-217)
DaysUntilDue(task, today) == DaysFrom(DueDay(Get(task.d, "due_date", NoneV)), today)

\* the distinct statuses in order of first use: the keys of by_status (lines 199-210)
RECURSIVE StatusKeys(_, _, _)
StatusKeys(tasks, i, keys) ==
    IF i > Len(tasks) THEN keys
    ELSE LET st == Get(tasks[i].d, "status", StrV("Not Started"))
         IN  StatusKeys(tasks, i + 1, IF Among(st, keys) THEN keys ELSE Append(keys, st))

\* one section that lists at most three tasks and counts the rest (lines 239-263)
Section(tasks) == [lines |-> FirstN(tasks, 3), more |-> IF Len(tasks) > 3 THEN Len(tasks) - 3 ELSE 0]

\* the status breakdown (lines 266-283): the tasks of one status and the up to
\* three of them listed
StatusLines(mine, overdue, due_soon, urgent) ==
    [status_tasks |-> mine,
     shown |-> FirstN(SelectSeq(mine, LAMBDA t : ~Among(t, overdue) /\ ~Among(t, due_soon)
                                                   /\ ~Among(t, urgent)), 3)]

StatusCounts(status, sec) ==
    [status |-> status, count |-> Len(sec.status_tasks), lines |-> sec.shown,
     more |-> Len(sec.status_tasks) - Len(sec.shown)]

StatusSection(status, tasks, overdue, due_soon, urgent) ==
    StatusCounts(status,
                 StatusLines(SelectSeq(tasks, LAMBDA t :
                                 Get(t.d, "status", StrV("Not Started")) = status),
                             overdue, due_soon, urgent))

\* the keys by_status starts with (line 199)
DefaultStatuses == <<StrV("Not Started"), StrV("In Progress"), StrV("Completed")>>

\* the three urgency tests of the loop (lines 219-225)
IsOverdue(days) == IsOk(days) /\ days.val.i < 0

IsDueSoon(days) == IsOk(days) /\ days.val.i >= 0 /\ days.val.i <= 2

IsUrgent(task, days) ==
    IsOk(days) /\ Get(task.d, "priority", NoneV) \in {StrV("High"), StrV("Critical")}

\* the lines of the summary, given the three urgency lists (lines 233-292)
SummaryText(tasks, total_count, project_name, overdue, due_soon, urgent) ==
    [empty |-> FALSE,
     context |-> project_name,
     count |-> Len(tasks),
     of_total |-> IF Truthy(total_count) THEN total_count ELSE NoneV,
     overdue |-> Section(overdue),
     due_soon |-> Section(due_soon),
     high_priority |-> Section(SelectSeq(urgent, LAMBDA t : ~Among(t, overdue)
                                                           /\ ~Among(t, due_soon))),
     by_status |-> SelectSeq(
                       [j \in 1..Len(StatusKeys(tasks, 1, DefaultStatuses)) |->
                           StatusSection(StatusKeys(tasks, 1, DefaultStatuses)[j], tasks,
                                         overdue, due_soon, urgent)],
                       LAMBDA sec : sec.count > 0)]

\* _create_tasks_summary_text (lines 193-292)
_create_tasks_summary_text(tasks, total_count, project_name, today) ==
    IF tasks = <<>> THEN [empty |-> TRUE]
    ELSE SummaryText(tasks, total_count, project_name,
                     SelectSeq(tasks, LAMBDA t : IsOverdue(DaysUntilDue(t, today))),
                     SelectSeq(tasks, LAMBDA t : IsDueSoon(DaysUntilDue(t, today))),
                     SelectSeq(tasks, LAMBDA t : IsUrgent(t, DaysUntilDue(t, today))))

\* a pagination that also offers a next page when the window ends exactly at the total
PaginationInclusive(shown, total_count, limit, offset) ==
    IF total_count.t # "int" THEN Raise("TypeError")
    ELSE Ok([showing_line |-> total_count.i > limit,
             showing |-> shown,
             total |-> total_count.i,
             more_hint |-> total_count.i > limit /\ offset + limit <= total_count.i,
             next_offset |-> offset + limit])

\* total_count > limit and offset + limit < total_count (lines 1477-1480, 1535-1538):
\* the "Showing n of total" line and the next-page hint
Pagination(shown, total_count, limit, offset) ==
    IF total_count.t # "int" THEN Raise("TypeError")
    ELSE Ok([showing_line |-> total_count.i > limit,
             showing |-> shown,
             total |-> total_count.i,
             more_hint |-> total_count.i > limit /\ offset + limit < total_count.i,
             next_offset |-> offset + limit])

\* summary_tasks = [self._format_task_summary(task) for task in tasks]
SummaryTasks(tasks, zone, plat) ==
    MapResults([i \in 1..Len(tasks) |->
                   AsDict(_format_task_summary(tasks[i].d, zone, plat))], 1, <<>>)

\* total_count = result.get("meta", {}).get("total", len(tasks))
TotalCount(result) ==
    Get(Get(result.d, "meta", DictV(EmptyDict)).d, "total",
        IntV(Len(Get(result.d, "tasks", ListV(<<>>)).l)))

\* the returned text: the summary followed by the pagination lines
SummaryWithPaging(summary_tasks, total_count, paging, label, today) ==
    IF ~IsOk(summary_tasks) THEN summary_tasks
    ELSE IF ~IsOk(paging) THEN paging
    ELSE Ok([kind |-> "summary",
             text |-> _create_tasks_summary_text(summary_tasks.val.l, total_count,
                                                 label, today),
             paging |-> paging.val])

\* the summary branch of get_project_tasks_tool and get_user_tasks_tool once the
\* label is known (lines 1470-1482, 1528-1540)
TasksSummary(result, label, limit, offset, clock, zone, plat) ==
    SummaryWithPaging(SummaryTasks(Get(result.d, "tasks", ListV(<<>>)).l, zone, plat),
                      TotalCount(result),
                      Pagination(Len(Get(result.d, "tasks", ListV(<<>>)).l),
                                 TotalCount(result), limit, offset),
                      label, Today(clock, zone))

\* _create_projects_summary_text (lines 294-327)
GroupLines(group) ==
    [group |-> group["group"],
     count |-> Len(group["projects"].l),
     lines |-> FirstN(group["projects"].l, 5),
     more |-> IF Len(group["projects"].l) > 5 THEN Len(group["projects"].l) - 5 ELSE 0]

RECURSIVE TotalProjects(_, _)
TotalProjects(groups, i) ==
    IF i > Len(groups) THEN 0 ELSE Len(groups[i].d["projects"].l) + TotalProjects(groups, i + 1)

ProjectsText(groups) ==
    [empty |-> FALSE,
     total |-> TotalProjects(groups, 1),
     groups |-> [j \in 1..Len(groups) |-> GroupLines(groups[j].d)]]

_create_projects_summary_text(grouped_projects) ==
    IF grouped_projects = <<>> THEN [empty |-> TRUE]
    ELSE ProjectsText(SelectSeq(grouped_projects, LAMBDA g : "projects" \in DOMAIN g.d))

-----------------------------------------------------------------------------
(* The registered tools: what each returns to the transport *)

ErrorOut(prefix, exc) == [kind |-> "error", prefix |-> prefix, message |-> exc]

\* json.dumps(result, indent=2), kept as the value it renders
JsonOut(v) == [kind |-> "json", value |-> v]

NoOut == [kind |-> "none"]

\* the prefix of each tool's except branch ("<x>" stands for the cross-mark emoji)
ErrorPrefix(t) ==
    IF t \in {"get_projects", "get_project_tasks", "get_user_tasks"}
    THEN "<x> Error: " ELSE "Error: "

\* the _make_request arguments of the operation a tool awaits first
PrimaryCall(t, a) ==
    CASE t = "get_projects" -> get_all_projects_call(a)
      [] t = "get_all_tasks" -> get_all_tasks_call(a)
      [] t = "get_project_tasks" -> get_project_tasks_call(a)
      [] t = "get_user_tasks" -> get_user_tasks_call(a)
      [] t = "create_task" -> create_task_call(a)
      [] t = "update_task" -> update_task_call(a)
      [] t = "update_project" -> update_project_call(a)
      [] t = "update_current_user" -> update_current_user_call(a)
      [] t = "update_comment" -> update_comment_call(a)
      [] t = "delete_task" -> delete_task_call(a)

\* the operation's result from the decoded envelope
PrimaryResult(t, a, response, zone, plat) ==
    CASE t = "get_projects" -> AllProjectsResult(response, a.include_recent, zone, plat)
      [] t \in {"get_all_tasks", "get_project_tasks", "get_user_tasks"} ->
            TaskListResult(response, a.include_custom_fields, zone, plat)
      [] t = "create_task" -> CreateTaskResult(response)
      [] t = "update_task" -> UpdateTaskResult(response)
      [] t = "update_project" -> UpdateProjectResult(response)
      [] t = "update_current_user" -> UpdateCurrentUserResult(response)
      [] t = "update_comment" -> UpdateCommentResult(response, zone, plat)
      [] t = "delete_task" -> DeleteTaskResult(response)

\* the tools that look up a display name after the task fetch, unless include_details
IsSummaryCall(t, a) == t \in {"get_project_tasks", "get_user_tasks"} /\ ~Truthy(a.include_details)

SecondaryCall(t, a) ==
    IF t = "get_project_tasks" THEN get_project_details_call(a.project_id)
    ELSE get_user_details_call(a.user_id)

\* project_name / user_name: the looked-up name when the lookup returned a truthy
\* one, else the default (lines 1461-1467, 1519-1525); get_user_tasks_tool passes
\* f"{user_name}'s workspace"
NameOr(details, key, default) ==
    IF IsOk(details) /\ Truthy(Get(details.val.d, key, NoneV)) THEN details.val.d[key].s
    ELSE default

SummaryLabel(t, a, looked, zone, plat) ==
    IF t = "get_project_tasks"
    THEN NameOr(IF IsOk(looked) THEN ProjectDetailsResult(looked.val, zone, plat) ELSE looked,
                "name", "Project " \o a.project_id.s)
    ELSE NameOr(IF IsOk(looked) THEN UserDetailsResult(looked.val) ELSE looked,
                "full_name", "User " \o a.user_id.s) \o "'s workspace"

\* a tool without an except branch: the operation's exception leaves the tool
OutcomeUncaught(t, a, result) ==
    IF ~IsOk(result) THEN [kind |-> "raised", exc |-> result.exc]
    ELSE IF t = "get_projects" /\ ~Truthy(a.include_details)
    THEN [kind |-> "projects_summary", text |-> _create_projects_summary_text(result.val.l)]
    ELSE JsonOut(result.val)

\* what a tool returns when it returns after its first await, given the
\* operation's result or exception
OutcomeOf(t, a, result) ==
    IF ~IsOk(result) THEN ErrorOut(ErrorPrefix(t), result.exc)
    ELSE IF t = "get_projects" /\ ~Truthy(a.include_details)
    THEN [kind |-> "projects_summary", text |-> _create_projects_summary_text(result.val.l)]
    ELSE JsonOut(result.val)

-----------------------------------------------------------------------------
(* Raw upstream task records, as the upstream's JSON can hold them *)

\* a record either lacks key k or holds one of vals under it
Optional(k, vals) == {EmptyDict} \cup {(k :> v) : v \in vals}

\* due_ts as upstream sends it: a number, a numeric or malformed string, null
DueTsValues ==
    {IntV(0), StrV("0"), StrV(""), StrV("abc"), NoneV,
     IntV(-86400), StrV("-5"), IntV(1700000000), StrV("1700000000")}

RawComment ==
    DictV([id |-> StrV("c1"), description |-> StrV("looks good"),
           created_by_id |-> StrV("7"), created_ts |-> IntV(1700000000)])

RawStatus ==
    {EmptyDict, [status |-> IntV(1)], [status |-> IntV(1), status_title |-> StrV("Completed")]}

RawPriority ==
    {EmptyDict, [priority |-> IntV(3), priority_title |-> StrV("High")]}

RawComments ==
    {EmptyDict, [comments_count |-> IntV(1)],
     [comments_count |-> IntV(1), comments |-> ListV(<<RawComment>>)]}

RawExtras ==
    {EmptyDict,
     [tags |-> ListV(<<StrV("urgent")>>),
      custom_fields |-> ListV(<<DictV([cf_id |-> StrV("f1"), value |-> StrV("x")])>>),
      cf_tpl_id |-> StrV("tpl1")]}

RawTasks ==
    {[title |-> StrV("Ship release"), project_id |-> StrV("123")]
        @@ ident @@ due @@ st @@ pr @@ who @@ cm @@ ex :
        ident \in Optional("id", {StrV("101")}),
        due \in Optional("due_ts", DueTsValues),
        st \in RawStatus,
        pr \in RawPriority,
        who \in Optional("assigned_to_fullname", {StrV("Ann")}),
        cm \in RawComments,
        ex \in RawExtras}

TimeZones == {0, -18000}

Platforms == {"posix", "win32"}

\* the hosts the server is run on: its UTC offset in seconds and its sys.platform
Hosts == {[tz |-> 0, platform |-> "posix"], [tz |-> -18000, platform |-> "win32"]}

\* a result not computed yet
Pending == [exc |-> "pending", val |-> NoneV]

\* the clock when the server starts: 2023-11-14 22:00:00 UTC
ClockStart == 19675 * SecondsPerDay + 22 * 3600

-----------------------------------------------------------------------------
(* The normalizer applied to one raw record *)

NormIdle ==
    /\ phase = "raw"
    /\ rawTask = EmptyDict
    /\ icf = FALSE
    /\ detailed = Pending
    /\ minimal = Pending
    /\ minimalOfDetailed = Pending

CallIdle ==
    /\ pc = "idle"
    /\ tool = "none"
    /\ args = EmptyDict
    /\ sent = <<>>
    /\ replies = <<>>
    /\ primary = Pending
    /\ out = NoOut

\* no pair of calls is being followed
PairIdle == calls = <<>> /\ finished = <<>>

\* no health check is being run
HealthIdle == hc = [pc |-> "off"]

InitNorm ==
    /\ tz \in TimeZones
    /\ platform \in Platforms
    /\ rawTask \in RawTasks
    /\ icf \in BOOLEAN
    /\ phase = "raw"
    /\ detailed = Pending
    /\ minimal = Pending
    /\ minimalOfDetailed = Pending
    /\ now = ClockStart
    /\ CallIdle
    /\ PairIdle
    /\ HealthIdle

\* the detailed and the minimal projection of the raw record
FormatRaw ==
    /\ phase = "raw"
    /\ detailed' = _format_task(rawTask, icf, tz, platform)
    /\ minimal' = _format_task_summary(rawTask, tz, platform)
    /\ phase' = "formatted"
    /\ UNCHANGED <<envVars, pairVars, healthVars, rawTask, icf, minimalOfDetailed, callVars>>

\* the minimal projection as get_project_tasks_tool / get_user_tasks_tool compute it:
\* _format_task_summary applied to the task _format_task returned
SummarizeDetailed ==
    /\ phase = "formatted"
    /\ IsOk(detailed)
    /\ minimalOfDetailed' = _format_task_summary(detailed.val, tz, platform)
    /\ phase' = "projected"
    /\ UNCHANGED <<envVars, pairVars, healthVars, rawTask, icf, detailed, minimal, callVars>>

NextNorm == FormatRaw \/ SummarizeDetailed

SpecNorm == InitNorm /\ [][NextNorm]_vars

-----------------------------------------------------------------------------
(* The callers' arguments and the upstream's answers *)

MaxTasks == 2
MaxProjects == 3
MaxLimit == 2
MaxOffset == 2
MaxTotal == 3
MaxTicks == 1

\* all sequences over pool of length at most n
SeqsUpTo(pool, n) == UNION {[1..k -> pool] : k \in 0..n}

\* the arguments of get_projects
ProjectsArgs ==
    {[include_recent |-> BoolV(r), include_details |-> BoolV(d)] : r \in BOOLEAN, d \in BOOLEAN}

\* the signature defaults of get_all_tasks_tool (lines 1378-1393)
AllTasksDefaults ==
    [limit |-> IntV(200), offset |-> IntV(0),
     status_filter |-> NoneV, assigned_to_ids |-> NoneV, created_by_ids |-> NoneV,
     due_date_from |-> NoneV, due_date_to |-> NoneV,
     created_date_from |-> NoneV, created_date_to |-> NoneV,
     include_archived |-> BoolV(FALSE), lists_status |-> StrV("active"),
     order_by |-> NoneV, order_direction |-> StrV("asc"),
     include_custom_fields |-> BoolV(FALSE), include_tags |-> BoolV(FALSE)]

StatusFilters ==
    {NoneV, ListV(<<>>), ListV(<<StrV("0")>>), ListV(<<StrV("0"), StrV("2")>>)}

PeopleFilters ==
    {[assigned_to_ids |-> NoneV, created_by_ids |-> NoneV],
     [assigned_to_ids |-> ListV(<<StrV("7")>>), created_by_ids |-> ListV(<<StrV("8")>>)],
     [assigned_to_ids |-> ListV(<<StrV("7"), StrV("8")>>),
      created_by_ids |-> ListV(<<StrV("8"), StrV("9")>>)]}

OtherFilters ==
    {<<>>,
     [due_date_from |-> StrV("2023-11-01"), due_date_to |-> StrV("2023-11-30"),
      created_date_from |-> StrV("2023-10-01"), created_date_to |-> StrV("2023-10-31"),
      include_archived |-> BoolV(TRUE), lists_status |-> StrV("all"),
      order_by |-> StrV("due_date"), order_direction |-> StrV("desc"),
      include_custom_fields |-> BoolV(TRUE), include_tags |-> BoolV(TRUE),
      limit |-> IntV(MaxLimit), offset |-> IntV(MaxOffset)]}

AllTasksArgs ==
    {[status_filter |-> st] @@ who @@ other @@ AllTasksDefaults :
        st \in StatusFilters, who \in PeopleFilters, other \in OtherFilters}

\* the signature defaults of get_project_tasks_tool (lines 1429-1437)
ProjectTasksDefaults ==
    [project_id |-> StrV("123"), status |-> NoneV, limit |-> IntV(50), offset |-> IntV(0),
     include_custom_fields |-> BoolV(FALSE), include_tags |-> BoolV(FALSE),
     include_details |-> BoolV(FALSE)]

Pages == {[limit |-> IntV(l), offset |-> IntV(o)] : l \in 0..MaxLimit, o \in 0..MaxOffset}

ProjectTasksArgs ==
    {[status |-> st, include_details |-> BoolV(TRUE)] @@ flags @@ ProjectTasksDefaults :
        st \in {NoneV, StrV("incomplete"), StrV("complete"), StrV("in_progress"), StrV("done")},
        flags \in {<<>>, [include_custom_fields |-> BoolV(TRUE), include_tags |-> BoolV(TRUE)]}}
    \cup {page @@ ProjectTasksDefaults : page \in Pages}

\* the signature defaults of get_user_tasks_tool (lines 1489-1496)
UserTasksDefaults ==
    [user_id |-> StrV("7"), include_completed |-> BoolV(FALSE), limit |-> IntV(50),
     offset |-> IntV(0), include_custom_fields |-> BoolV(FALSE),
     include_details |-> BoolV(FALSE)]

UserTasksArgs ==
    {[include_completed |-> BoolV(c), include_details |-> BoolV(TRUE),
      include_custom_fields |-> BoolV(c)] @@ UserTasksDefaults : c \in BOOLEAN}
    \cup {[limit |-> IntV(l)] @@ UserTasksDefaults : l \in 0..MaxLimit}

\* the signature defaults of create_task_tool (lines 1589-1603), with the two
\* required arguments of the release scenario
CreateTaskDefaults ==
    [title |-> StrV("Ship release"), project_id |-> StrV("123"),
     description |-> NoneV, task_group_id |-> NoneV, priority |-> NoneV,
     assigned_to_id |-> NoneV, due_date |-> NoneV, start_date |-> NoneV,
     recurring_rule |-> NoneV, parent_task_id |-> NoneV, attached_file_ids |-> NoneV,
     custom_fields |-> NoneV, cf_template_id |-> NoneV]

CustomFieldValues == ListV(<<DictV([cf_id |-> StrV("f1"), value |-> StrV("x")])>>)

CreateTaskArgs ==
    {[description |-> desc, priority |-> prio] @@ rest @@ cf @@ CreateTaskDefaults :
        desc \in {NoneV, StrV(""), StrV("cut the tag")},
        prio \in {NoneV, IntV(0), IntV(2)},
        rest \in {<<>>,
                  [task_group_id |-> StrV("55"), assigned_to_id |-> StrV("7"),
                   due_date |-> StrV("2023-11-30"), start_date |-> StrV("2023-11-15"),
                   recurring_rule |-> StrV("FREQ=WEEKLY"), parent_task_id |-> StrV("101"),
                   attached_file_ids |-> ListV(<<IntV(901)>>)]},
        cf \in {<<>>,
                [custom_fields |-> CustomFieldValues],
                [custom_fields |-> CustomFieldValues, cf_template_id |-> StrV("tpl1")]}}
    \cup {bad @@ CreateTaskDefaults :
             bad \in {[title |-> StrV("")], [project_id |-> StrV("")], [priority |-> IntV(7)]}}

\* the signature defaults of update_task_tool (lines 1640-1654)
UpdateTaskDefaults ==
    [task_id |-> StrV("101"), title |-> NoneV, description |-> NoneV,
     task_group_id |-> NoneV, priority |-> NoneV, assigned_to_id |-> NoneV,
     due_date |-> NoneV, start_date |-> NoneV, status |-> NoneV,
     parent_task_id |-> NoneV, attached_file_ids |-> NoneV,
     custom_fields |-> NoneV, cf_template_id |-> NoneV]

\* update_task with nothing to change, with one field, with empty texts, with
\* numbers, with custom fields, and with every remaining field
UpdateTaskArgs ==
    {given @@ UpdateTaskDefaults :
        given \in {<<>>,
                   [title |-> StrV("Ship it")],
                   [title |-> StrV(""), description |-> StrV(""), assigned_to_id |-> StrV("")],
                   [priority |-> IntV(0), status |-> IntV(1)],
                   [custom_fields |-> CustomFieldValues],
                   [custom_fields |-> CustomFieldValues, cf_template_id |-> StrV("tpl1")],
                   [task_group_id |-> StrV("55"), due_date |-> StrV("2023-11-30"),
                    start_date |-> StrV("2023-11-15"), parent_task_id |-> StrV("100"),
                    attached_file_ids |-> ListV(<<IntV(901)>>)]}}

\* update_project renaming a project, and changing only its users
UpdateProjectArgs ==
    {given @@ [project_id |-> StrV("123"), name |-> NoneV, description |-> NoneV,
               color |-> NoneV, group_id |-> NoneV, group_name |-> NoneV, active |-> NoneV,
               users_to_add |-> NoneV, users_to_update |-> NoneV, users_to_delete |-> NoneV,
               only_update_users |-> BoolV(FALSE)] :
        given \in {[name |-> StrV("Launch"), description |-> StrV(""), active |-> BoolV(TRUE)],
                   [only_update_users |-> BoolV(TRUE),
                    users_to_add |-> ListV(<<DictV([user_id |-> StrV("7")])>>)]}}

UpdateCurrentUserArgs ==
    {[email |-> NoneV, password |-> NoneV, first_name |-> StrV("Ann"), last_name |-> NoneV,
      confirmation_password |-> NoneV, timezone |-> StrV("UTC")]}

UpdateCommentArgs == {[comment_id |-> StrV("c1"), description |-> StrV("looks good")]}

DeleteTaskArgs == {[task_id |-> StrV(x)] : x \in {"101", "102"}}

ArgsOf(t) ==
    CASE t = "get_projects" -> ProjectsArgs
      [] t = "get_all_tasks" -> AllTasksArgs
      [] t = "get_project_tasks" -> ProjectTasksArgs
      [] t = "get_user_tasks" -> UserTasksArgs
      [] t = "create_task" -> CreateTaskArgs
      [] t = "update_task" -> UpdateTaskArgs
      [] t = "update_project" -> UpdateProjectArgs
      [] t = "update_current_user" -> UpdateCurrentUserArgs
      [] t = "update_comment" -> UpdateCommentArgs
      [] t = "delete_task" -> DeleteTaskArgs

\* raw task records of a list response: a full one due ten days before ClockStart,
\* one with only the required keys, one without an id
TaskFull ==
    DictV([id |-> StrV("101"), title |-> StrV("Ship release"),
           description |-> StrV("cut the tag"),
           status |-> IntV(2), status_title |-> StrV("In Progress"),
           priority |-> IntV(3), priority_title |-> StrV("High"),
           assigned_to_id |-> StrV("7"), assigned_to_fullname |-> StrV("Ann"),
           project_id |-> StrV("123"),
           created_ts |-> IntV(ClockStart - 30 * SecondsPerDay),
           due_ts |-> IntV(ClockStart - 10 * SecondsPerDay),
           comments_count |-> IntV(1), can_edit |-> BoolV(TRUE),
           tags |-> ListV(<<StrV("urgent")>>),
           custom_fields |-> CustomFieldValues, cf_tpl_id |-> StrV("tpl1")])

TaskBare == DictV([id |-> StrV("102"), title |-> StrV("Write docs")])

TaskNoId == DictV([title |-> StrV("Untracked")])

TaskLists ==
    SeqsUpTo({TaskFull, TaskBare}, MaxTasks) \cup {<<TaskNoId>>, <<TaskFull, TaskNoId>>}

\* data.meta of a task-list envelope: absent, or a total as a number or as text
Metas ==
    {<<>>} \cup {[meta |-> DictV([total |-> IntV(n)])] : n \in 0..MaxTotal}
           \cup {[meta |-> DictV([total |-> StrV("3")])]}

\* raw project records: two in the explicit "Ungrouped" group, one without
\* group_name, one in a named group
ProjectPool ==
    {DictV([id |-> StrV("1"), project_name |-> StrV("Alpha"), group_name |-> StrV("Ungrouped")]),
     DictV([id |-> StrV("2"), project_name |-> StrV("Beta"), group_name |-> StrV("Ungrouped")]),
     DictV([id |-> StrV("3"), project_name |-> StrV("Gamma")]),
     DictV([id |-> StrV("4"), project_name |-> StrV("Delta"), group_name |-> StrV("Clients"),
            created_ts |-> IntV(ClockStart - 30 * SecondsPerDay),
            users |-> ListV(<<DictV([user_id |-> StrV("7"), full_name |-> StrV("Ann")])>>)])}

\* a project record without an id
ProjectNoId == DictV([project_name |-> StrV("Orphan")])

Envelope(data) == HttpResponse(200, DictV([data |-> DictV(data)]))

\* a 2xx answer whose envelope reports an application failure
FailureEnvelope ==
    HttpResponse(200, DictV([status_code |-> IntV(400), msg |-> StrV("Invalid id")]))

\* answers that carry no envelope, or an envelope without data
Failures ==
    {TransportError, HttpResponse(500, NotJson), HttpResponse(200, NotJson),
     HttpResponse(200, DictV(EmptyDict)), FailureEnvelope}

TaskListResponses ==
    Failures \cup {Envelope([tasks |-> ListV(l)] @@ m) :
                       l \in TaskLists, m \in Metas}

ProjectListResponses ==
    Failures \cup {Envelope([projects |-> ListV(l)] @@ recent) :
                       l \in SeqsUpTo(ProjectPool, MaxProjects) \cup {<<ProjectNoId>>},
                       recent \in {<<>>, [recent_project_ids |-> ListV(<<StrV("1")>>)]}}

MutationResponses == Failures \cup {Envelope([tasks |-> ListV(<<TaskFull>>)])}

ProjectLookupResponses ==
    Failures \cup {Envelope([projects |-> ListV(<<pr>>)]) :
                       pr \in {ProjectNoId,
                               DictV([id |-> StrV("123"), project_name |-> StrV("Launch")])}}

UserLookupResponses ==
    Failures \cup {Envelope([users |-> ListV(<<DictV(u)>>)]) :
                       u \in {[user_id |-> StrV("7"), full_name |-> StrV("Ann")],
                              [user_id |-> StrV("7"), full_name |-> StrV("")],
                              [user_id |-> StrV("7")]}}

\* the answers the upstream can give to a tool's first request
ResponsesTo(t) ==
    CASE t = "get_projects" -> ProjectListResponses
      [] t \in {"get_all_tasks", "get_project_tasks", "get_user_tasks"} -> TaskListResponses
      [] t \in {"create_task", "update_task", "delete_task", "update_project"} ->
            MutationResponses
      [] t = "update_current_user" ->
            Failures \cup {Envelope([users |-> ListV(<<DictV([user_id |-> StrV("7")])>>),
                                     token |-> StrV("token-2")])}
      [] t = "update_comment" ->
            Failures \cup {Envelope([comments |-> ListV(<<RawComment>>)]),
                           Envelope([comments |-> ListV(<<DictV([id |-> StrV("c1")])>>)])}

\* and to the name lookup that follows
LookupResponsesTo(t) ==
    IF t = "get_project_tasks" THEN ProjectLookupResponses ELSE UserLookupResponses

-----------------------------------------------------------------------------
(* The server handling one tool call at a time *)

Init ==
    /\ \E host \in Hosts : tz = host.tz /\ platform = host.platform
    /\ NormIdle
    /\ now = ClockStart
    /\ CallIdle
    /\ PairIdle
    /\ HealthIdle

\* a second passes
Tick ==
    /\ now < ClockStart + MaxTicks
    /\ now' = now + 1
    /\ UNCHANGED <<envVars, pairVars, healthVars, normVars, pc, tool, args, sent, replies, primary, out>>

\* a dispatcher that sends every request a second time
LogTwice(made) ==
    /\ IsOk(made)
    /\ sent' = sent \o <<[request |-> made.val, at |-> now], [request |-> made.val, at |-> now]>>

\* _make_request up to the await on the HTTP client: the request is logged with
\* the clock reading at dispatch
Log(made) ==
    /\ IsOk(made)
    /\ sent' = Append(sent, [request |-> made.val, at |-> now])

Dispatch(call) == Log(_make_request(call.method, call.endpoint, call.params, call.data, now))

\* a tool is called and runs up to its first await
Start(t) ==
    /\ pc = "idle"
    /\ \E a \in ArgsOf(t) :
          /\ tool' = t
          /\ args' = a
          /\ Dispatch(PrimaryCall(t, a))
    /\ pc' = "await_primary"
    /\ UNCHANGED <<envVars, pairVars, healthVars, normVars, now, replies, primary, out>>

get_projects == Start("get_projects")

get_all_tasks_tool == Start("get_all_tasks")

get_project_tasks_tool == Start("get_project_tasks")

get_user_tasks_tool == Start("get_user_tasks")

create_task_tool == Start("create_task")

update_task_tool == Start("update_task")

delete_task_tool == Start("delete_task")

update_project_tool == Start("update_project")

update_current_user_tool == Start("update_current_user")

update_comment_tool == Start("update_comment")

\* the operation's result once the HTTP client answers the first request
ResultOf(resp) ==
    IF IsOk(ReceiveResponse(resp))
    THEN PrimaryResult(tool, args, ReceiveResponse(resp).val, tz, platform)
    ELSE ReceiveResponse(resp)

\* the tool's return after its first await
Return(resp, result) ==
    /\ ~(IsSummaryCall(tool, args) /\ IsOk(result))
    /\ replies' = Append(replies, resp)
    /\ out' = OutcomeOf(tool, args, result)

\* the first request is answered and the tool returns: an error text, the JSON
\* of the result, or the projects summary
ReturnResult ==
    /\ pc = "await_primary"
    /\ \E resp \in ResponsesTo(tool) : Return(resp, ResultOf(resp))
    /\ pc' = "done"
    /\ UNCHANGED <<envVars, pairVars, healthVars, normVars, now, tool, args, sent, primary>>

\* a tool that looks the name up whatever became of the task fetch
HoldAnyway(resp, result) ==
    /\ replies' = Append(replies, resp)
    /\ primary' = result

\* the task list is kept while the name is looked up
Hold(resp, result) ==
    /\ IsOk(result)
    /\ replies' = Append(replies, resp)
    /\ primary' = result

\* the task fetch of get_project_tasks_tool / get_user_tasks_tool succeeded and the
\* summary is wanted: the tool asks for the project's or user's name
LookUpName ==
    /\ pc = "await_primary"
    /\ IsSummaryCall(tool, args)
    /\ \E resp \in ResponsesTo(tool) : Hold(resp, ResultOf(resp))
    /\ Dispatch(SecondaryCall(tool, args))
    /\ pc' = "await_secondary"
    /\ UNCHANGED <<envVars, pairVars, healthVars, normVars, now, tool, args, out>>

\* a tool whose name lookup has no except of its own: a failed lookup aborts the call
SummarizeOrAbort(resp, summary) ==
    /\ replies' = Append(replies, resp)
    /\ out' = IF ~IsOk(ReceiveResponse(resp))
              THEN ErrorOut(ErrorPrefix(tool), ReceiveResponse(resp).exc)
              ELSE IF IsOk(summary) THEN summary.val
              ELSE ErrorOut(ErrorPrefix(tool), summary.exc)

\* the tool's return after the name lookup
Summarize(resp, summary) ==
    /\ replies' = Append(replies, resp)
    /\ out' = IF IsOk(summary) THEN summary.val ELSE ErrorOut(ErrorPrefix(tool), summary.exc)

\* the name lookup is answered, or fails, and the tool returns the summary
ReturnSummary ==
    /\ pc = "await_secondary"
    /\ \E resp \in LookupResponsesTo(tool) :
          Summarize(resp,
                    TasksSummary(primary.val,
                                 SummaryLabel(tool, args, ReceiveResponse(resp), tz, platform),
                                 args.limit.i, args.offset.i, now, tz, platform))
    /\ pc' = "done"
    /\ UNCHANGED <<envVars, pairVars, healthVars, normVars, now, tool, args, sent, primary>>

\* the transport takes the tool's text; the server is ready for the next call
Deliver ==
    /\ pc = "done"
    /\ pc' = "idle"
    /\ tool' = "none"
    /\ args' = EmptyDict
    /\ sent' = <<>>
    /\ replies' = <<>>
    /\ primary' = Pending
    /\ out' = NoOut
    /\ UNCHANGED <<envVars, pairVars, healthVars, normVars, now>>

Next ==
    \/ Tick
    \/ get_projects
    \/ get_all_tasks_tool
    \/ get_project_tasks_tool
    \/ get_user_tasks_tool
    \/ create_task_tool
    \/ update_task_tool
    \/ delete_task_tool
    \/ update_project_tool
    \/ update_current_user_tool
    \/ update_comment_tool
    \/ ReturnResult
    \/ LookUpName
    \/ ReturnSummary
    \/ Deliver

Spec == Init /\ [][Next]_vars

-----------------------------------------------------------------------------
(* Two tool calls on the one FreedcampMCP instance, suspending at each await *)

Callers == {1, 2}

Other(c) == CHOOSE d \in Callers : d # c

\* the frame of a call that has not started: its locals are unbound
IdleFrame ==
    [pc |-> "idle", tool |-> "none", args |-> EmptyDict, before |-> <<>>,
     sent |-> <<>>, replies |-> <<>>, primary |-> Pending, clock |-> 0, out |-> NoOut]

\* the calls the two callers make: a project list, a filtered task list, a
\* project's task summary, a task creation
PairCalls ==
    {[tool |-> "get_projects",
      args |-> [include_recent |-> BoolV(TRUE), include_details |-> BoolV(TRUE)]],
     [tool |-> "get_all_tasks",
      args |-> [status_filter |-> ListV(<<StrV("0")>>), include_tags |-> BoolV(TRUE)]
                   @@ AllTasksDefaults],
     [tool |-> "get_project_tasks", args |-> ProjectTasksDefaults],
     [tool |-> "create_task", args |-> [description |-> StrV("cut the tag")] @@ CreateTaskDefaults]}

\* the upstream's answers to them
PairResponsesTo(t) ==
    CASE t = "get_projects" ->
            {TransportError,
             Envelope([projects |-> ListV(<<ProjectNoId>>)]),
             Envelope([projects |-> ListV(<<DictV([id |-> StrV("123"),
                                                    project_name |-> StrV("Launch")])>>)])}
      [] t \in {"get_all_tasks", "get_project_tasks"} ->
            {TransportError, Envelope([tasks |-> ListV(<<TaskFull>>)]),
             Envelope([tasks |-> ListV(<<TaskBare>>)])}
      [] OTHER -> {TransportError, Envelope([tasks |-> ListV(<<TaskFull>>)])}

PairLookupResponses ==
    {TransportError,
     Envelope([projects |-> ListV(<<DictV([id |-> StrV("123"),
                                            project_name |-> StrV("Launch")])>>)])}

\* a params dict kept on the instance and handed from one call to the next: the
\* query of the other call's request is still in it
LeakingCall(c, call) ==
    IF calls[Other(c)].sent # <<>> /\ call.method = "GET"
    THEN [call EXCEPT !.params =
             DictV((IF Truthy(call.params) THEN call.params.d ELSE EmptyDict)
                   @@ calls[Other(c)].sent[1].request.params)]
    ELSE call

\* the arguments of _make_request are the locals of the calling coroutine: each
\* operation builds its own params / data dict (lines 333, 621, 699, 751, 821)
OwnCall(c, call) == call

\* an operation that answers from the result another call left on the instance
CachedResult(c, result) ==
    IF calls[Other(c)].pc = "done" /\ calls[Other(c)].tool = calls[c].tool
    THEN calls[Other(c)].primary ELSE result

\* the response awaited by an operation is a local of its own coroutine
OwnResult(c, result) == result

\* the operation's result for an answer, as the tool of frame f gets it
FrameResult(f, resp) ==
    IF IsOk(ReceiveResponse(resp))
    THEN PrimaryResult(f.tool, f.args, ReceiveResponse(resp).val, tz, platform)
    ELSE ReceiveResponse(resp)

\* the frame once the tool has run up to its first await
Started(c, t, a, made) ==
    [IdleFrame EXCEPT !.pc = "await_primary", !.tool = t, !.args = a, !.before = finished,
                      !.sent = <<[request |-> made.val, at |-> now]>>]

PairInit ==
    /\ \E host \in Hosts : tz = host.tz /\ platform = host.platform
    /\ NormIdle
    /\ now = ClockStart
    /\ CallIdle
    /\ HealthIdle
    /\ calls = [c \in Callers |-> IdleFrame]
    /\ finished = <<>>

PairTick ==
    /\ now < ClockStart + MaxTicks
    /\ now' = now + 1
    /\ UNCHANGED <<envVars, normVars, pc, tool, args, sent, replies, primary, out,
                   pairVars, healthVars>>

\* caller c calls a tool, which runs up to its first await
PairStart(c) ==
    /\ calls[c].pc = "idle"
    /\ \E call \in PairCalls :
          calls' = [calls EXCEPT ![c] =
                       Started(c, call.tool, call.args,
                               _make_request(
                                   OwnCall(c, PrimaryCall(call.tool, call.args)).method,
                                   OwnCall(c, PrimaryCall(call.tool, call.args)).endpoint,
                                   OwnCall(c, PrimaryCall(call.tool, call.args)).params,
                                   OwnCall(c, PrimaryCall(call.tool, call.args)).data,
                                   now))]
    /\ UNCHANGED <<envVars, normVars, callVars, finished, healthVars>>

\* the frame once the tool has returned after its first await
Returned(f, resp, result) ==
    [f EXCEPT !.pc = "done", !.replies = Append(@, resp), !.primary = result,
              !.clock = now, !.out = OutcomeOf(f.tool, f.args, result)]

\* the first request of c is answered and its tool returns
PairReturn(c) ==
    /\ calls[c].pc = "await_primary"
    /\ \E resp \in PairResponsesTo(calls[c].tool) :
          /\ ~(IsSummaryCall(calls[c].tool, calls[c].args)
               /\ IsOk(OwnResult(c, FrameResult(calls[c], resp))))
          /\ calls' = [calls EXCEPT ![c] =
                          Returned(calls[c], resp, OwnResult(c, FrameResult(calls[c], resp)))]
    /\ finished' = Append(finished, c)
    /\ UNCHANGED <<envVars, normVars, callVars, healthVars>>

\* the frame once the tool has asked for the name
LookingUp(f, resp, result, made) ==
    [f EXCEPT !.pc = "await_secondary", !.replies = Append(@, resp), !.primary = result,
              !.sent = Append(@, [request |-> made.val, at |-> now])]

\* the task fetch of c succeeded and its summary tool asks for the name
PairLookUp(c) ==
    /\ calls[c].pc = "await_primary"
    /\ IsSummaryCall(calls[c].tool, calls[c].args)
    /\ \E resp \in PairResponsesTo(calls[c].tool) :
          /\ IsOk(OwnResult(c, FrameResult(calls[c], resp)))
          /\ calls' = [calls EXCEPT ![c] =
                          LookingUp(calls[c], resp, OwnResult(c, FrameResult(calls[c], resp)),
                                    _make_request(
                                        SecondaryCall(calls[c].tool, calls[c].args).method,
                                        SecondaryCall(calls[c].tool, calls[c].args).endpoint,
                                        SecondaryCall(calls[c].tool, calls[c].args).params,
                                        SecondaryCall(calls[c].tool, calls[c].args).data,
                                        now))]
    /\ UNCHANGED <<envVars, normVars, callVars, finished, healthVars>>

\* the summary a frame's tool returns for the answer to its name lookup
FrameSummary(f, resp, clock) ==
    TasksSummary(f.primary.val,
                 SummaryLabel(f.tool, f.args, ReceiveResponse(resp), tz, platform),
                 f.args.limit.i, f.args.offset.i, clock, tz, platform)

Summarized(f, resp, summary) ==
    [f EXCEPT !.pc = "done", !.replies = Append(@, resp), !.clock = now,
              !.out = IF IsOk(summary) THEN summary.val
                      ELSE ErrorOut(ErrorPrefix(f.tool), summary.exc)]

\* the name lookup of c is answered and its tool returns the summary
PairSummary(c) ==
    /\ calls[c].pc = "await_secondary"
    /\ \E resp \in PairLookupResponses :
          calls' = [calls EXCEPT ![c] =
                       Summarized(calls[c], resp, FrameSummary(calls[c], resp, now))]
    /\ finished' = Append(finished, c)
    /\ UNCHANGED <<envVars, normVars, callVars, healthVars>>

PairNext ==
    \/ PairTick
    \/ \E c \in Callers : PairStart(c)
    \/ \E c \in Callers : PairReturn(c)
    \/ \E c \in Callers : PairLookUp(c)
    \/ \E c \in Callers : PairSummary(c)

SpecPair == PairInit /\ [][PairNext]_vars

-----------------------------------------------------------------------------
(* The health check script (healthcheck.py) *)

\* one entry of the list get_all_users builds (lines 937-945)
WorkspaceUser(user) ==
    IF "user_id" \notin DOMAIN user \/ "full_name" \notin DOMAIN user THEN Raise("KeyError")
    ELSE Ok(DictV([user_id |-> user["user_id"],
                   full_name |-> user["full_name"],
                   first_name |-> Get(user, "first_name", StrV("")),
                   last_name |-> Get(user, "last_name", StrV("")),
                   email |-> Get(user, "email", NoneV),
                   avatar_url |-> Get(user, "avatar_url", NoneV),
                   timezone |-> Get(user, "timezone", NoneV)]))

\* get_all_users after its request (lines 934-947)
AllUsersResult(response) ==
    MapResults([i \in 1..Len(DataField(response, "users", ListV(<<>>)).l) |->
                   WorkspaceUser(DataField(response, "users", ListV(<<>>)).l[i].d)], 1, <<>>)

\* the values FREEDCAMP_API_KEY and FREEDCAMP_API_SECRET can have in the environment
\* of the script: unset (read as "") or set
Credentials == {[api_key |-> k, api_secret |-> s] : k \in {"", ApiKey}, s \in {"", ApiSecret}}

UserPool ==
    {DictV([user_id |-> StrV("7"), full_name |-> StrV("Ann"), email |-> StrV("ann@example.org")]),
     DictV([user_id |-> StrV("8"), full_name |-> StrV("Bob")]),
     DictV([user_id |-> StrV("9")])}

MaxUsers == 2

UsersResponses == Failures \cup {Envelope([users |-> ListV(l)]) : l \in SeqsUpTo(UserPool, MaxUsers)}

\* the script before its first line: module_client is the client of the server
\* instance freedcamp_mcp.py builds when imported, client the one of health_check
HealthFrame(env) ==
    [pc |-> "start", api_key |-> env.api_key, api_secret |-> env.api_secret,
     module_client |-> "none", client |-> "none", sent |-> <<>>, reply |-> Pending,
     users |-> Pending, printed |-> "", returned |-> "none", exit |-> "none"]

HealthInit ==
    /\ \E host \in Hosts : tz = host.tz /\ platform = host.platform
    /\ NormIdle
    /\ now = ClockStart
    /\ CallIdle
    /\ PairIdle
    /\ \E env \in Credentials : hc = HealthFrame(env)

\* from freedcamp_mcp import ... (healthcheck.py line 10) runs the module's top level
\* (freedcamp_mcp.py lines 1891-1903): without both credentials it raises
\* RuntimeError and the script ends there; with them it builds the server instance
\* and its HTTP client
ImportModule ==
    /\ hc.pc = "start"
    /\ hc' = IF hc.api_key = "" \/ hc.api_secret = ""
             THEN [hc EXCEPT !.pc = "exited", !.exit = "RuntimeError"]
             ELSE [hc EXCEPT !.pc = "imported", !.module_client = "open"]
    /\ UNCHANGED <<envVars, normVars, callVars, pairVars>>

\* health_check with both credentials, up to the await in get_all_users
FetchUsers(made) ==
    IF ~IsOk(made)
    THEN [hc EXCEPT !.pc = "finally", !.client = "open", !.returned = "False",
                    !.printed = "ERROR: Health check failed - " \o made.exc]
    ELSE [hc EXCEPT !.pc = "await_users", !.client = "open",
                    !.sent = <<[request |-> made.val, at |-> now]>>]

\* health_check up to its first await or return (lines 14-28)
health_check ==
    /\ hc.pc = "imported"
    /\ hc' = IF hc.api_key = "" \/ hc.api_secret = ""
             THEN [hc EXCEPT !.pc = "finally", !.returned = "False",
                             !.printed = "ERROR: Missing API credentials"]
             ELSE FetchUsers(_make_request("GET", "users", NoneV, NoneV, now))
    /\ UNCHANGED <<envVars, normVars, callVars, pairVars>>

\* lines 30-39, given what get_all_users returned or raised
HealthAnswered(resp, users) ==
    IF IsOk(users)
    THEN [hc EXCEPT !.pc = "finally", !.reply = resp, !.users = users, !.returned = "True",
                    !.printed = "OK: Connected to Freedcamp API, found "
                                    \o IntToStr(Len(users.val.l)) \o " users"]
    ELSE [hc EXCEPT !.pc = "finally", !.reply = resp, !.users = users, !.returned = "False",
                    !.printed = "ERROR: Health check failed - " \o users.exc]

\* the users request is answered, or fails, and health_check reaches its return
UsersAnswered ==
    /\ hc.pc = "await_users"
    /\ \E resp \in UsersResponses :
          hc' = HealthAnswered(resp, IF IsOk(ReceiveResponse(resp))
                                     THEN AllUsersResult(ReceiveResponse(resp).val)
                                     ELSE ReceiveResponse(resp))
    /\ UNCHANGED <<envVars, normVars, callVars, pairVars>>

\* finally: the client of the instance health_check built is closed (lines 40-42)
CloseClient ==
    /\ hc.pc = "finally"
    /\ hc' = [hc EXCEPT !.pc = "returned",
                        !.client = IF hc.client = "open" THEN "closed" ELSE hc.client]
    /\ UNCHANGED <<envVars, normVars, callVars, pairVars>>

\* sys.exit(0 if success else 1) (lines 44-49)
ExitScript ==
    /\ hc.pc = "returned"
    /\ hc' = [hc EXCEPT !.pc = "exited", !.exit = IF hc.returned = "True" THEN "0" ELSE "1"]
    /\ UNCHANGED <<envVars, normVars, callVars, pairVars>>

HealthNext ==
    \/ Tick
    \/ ImportModule
    \/ health_check
    \/ UsersAnswered
    \/ CloseClient
    \/ ExitScript

SpecHealth == HealthInit /\ [][HealthNext]_vars

-----------------------------------------------------------------------------
(* Properties of the normalizer (SpecNorm) *)

\* the due timestamps the normalization policy names: 0, "0", "", a malformed
\* string, a negative number
NoDateTs(v) ==
    \/ v.t = "int" /\ v.i <= 0
    \/ v.t = "str" /\ (v.s \in {"", "0"} \/ ~IsOk(PyInt(v.s)))

\* C1: a raw task whose due_ts is 0, "0", "", malformed or negative is normalized
\* by _format_task to an absent due date (the empty string), never a rendered date.
C1_InvalidDueTsIsAbsent ==
    (phase # "raw" /\ {"id", "due_ts"} \subseteq DOMAIN rawTask /\ NoDateTs(rawTask["due_ts"]))
        => (IsOk(detailed) /\ detailed.val["due_date"] = StrV(""))

\* the fields two projections share hold the same values
SharedFieldsAgree(a, b) == \A k \in DOMAIN a \cap DOMAIN b : a[k] = b[k]

\* C3: every field present in both the minimal and the detailed projection of a
\* task has the same value in both, whether the minimal projection is computed
\* from the raw record or from the already-normalized task.
C3_SharedFieldsSameValue ==
    /\ (IsOk(minimal) /\ IsOk(detailed)) => SharedFieldsAgree(minimal.val, detailed.val)
    /\ (phase = "projected" /\ IsOk(minimalOfDetailed))
          => SharedFieldsAgree(minimalOfDetailed.val, detailed.val)

\* C4: the field names of the minimal projection are a strict subset of the field
\* names of the detailed projection of the same record.
C4_MinimalFieldsStrictSubset ==
    (IsOk(minimal) /\ IsOk(detailed))
        => (DOMAIN minimal.val \subseteq DOMAIN detailed.val
            /\ DOMAIN minimal.val # DOMAIN detailed.val)

-----------------------------------------------------------------------------
(* Properties of the tool calls *)

\* the query string of the call's first request
Query == sent[1].request.params

\* every value of a filter list is in the query under some key
FilterSent(filter) ==
    Truthy(filter) => \A i \in 1..Len(filter.l) : \E k \in DOMAIN Query : Query[k] = filter.l[i]

\* C2: get_all_tasks with a status_filter, assigned_to_ids or created_by_ids of
\* n >= 1 distinct values sends a query that carries all n values
C2_AllFilterValuesSent ==
    (tool = "get_all_tasks" /\ sent # <<>>)
        => /\ FilterSent(args.status_filter)
           /\ FilterSent(args.assigned_to_ids)
           /\ FilterSent(args.created_by_ids)

\* the task-list envelope the upstream answered with, and what it holds
TaskData == IF "data" \in DOMAIN replies[1].body.d THEN replies[1].body.d["data"].d ELSE <<>>

HasMeta == "meta" \in DOMAIN TaskData

ReturnedCount == IF "tasks" \in DOMAIN TaskData THEN Len(TaskData["tasks"].l) ELSE 0

UpstreamTotal == IF HasMeta THEN TaskData["meta"].d["total"].i ELSE ReturnedCount

SummaryReturned ==
    pc = "done" /\ tool \in {"get_project_tasks", "get_user_tasks"} /\ out.kind = "summary"

\* C5: for non-negative offset, limit and total, the summary of get_project_tasks
\* and get_user_tasks carries the next-page hint exactly when offset + limit < total,
\* and the hint names offset + limit
C5_MoreHintIffWindowBeforeTotal ==
    SummaryReturned
        => /\ out.paging.more_hint <=> (args.offset.i + args.limit.i < UpstreamTotal)
           /\ out.paging.next_offset = args.offset.i + args.limit.i

\* a summary that carries the hint, for a page that is not the first
C5_HintShownPastFirstPage ==
    SummaryReturned /\ out.paging.more_hint /\ args.offset.i > 0 /\ args.limit.i > 0

\* C6: when the task-list envelope has no meta block, the summary uses the number
\* of tasks returned as the total and offers no further page, whatever offset and limit
C6_NoMetaNoFurtherPage ==
    (SummaryReturned /\ ~HasMeta)
        => /\ out.paging.total = ReturnedCount
           /\ ~out.paging.more_hint

\* C7: a task-list request with an empty filter set (get_all_tasks with its defaults,
\* get_project_tasks with no status and no include flag) still sends limit, offset
\* and lists_status = "active"
C7_EmptyFilterKeepsMandatoryKeys ==
    (/\ sent # <<>>
     /\ \/ tool = "get_all_tasks" /\ args = AllTasksDefaults
        \/ /\ tool = "get_project_tasks"
           /\ args.status = NoneV
           /\ ~Truthy(args.include_custom_fields)
           /\ ~Truthy(args.include_tags))
        => /\ {"limit", "offset", "lists_status"} \subseteq DOMAIN Query
           /\ Query["limit"] = StrV(IntToStr(args.limit.i))
           /\ Query["offset"] = StrV(IntToStr(args.offset.i))
           /\ Query["lists_status"] = StrV("active")

\* create_task called with title and project_id only
MinimalCreate == tool = "create_task" /\ args = CreateTaskDefaults /\ sent # <<>>

\* C8: create_task with only title and project_id sends a body that decodes to
\* exactly {title, project_id} with the values supplied
C8_MinimalCreateBodyHasTwoKeys ==
    MinimalCreate
        => /\ sent[1].request.method = "POST"
           /\ sent[1].request.form.t = "dict"
           /\ DOMAIN sent[1].request.form.d = {"data"}
           /\ JsonLoads(sent[1].request.form.d["data"].s)
                 = Ok(DictV([title |-> StrV("Ship release"), project_id |-> StrV("123")]))

\* the minimal create_task was sent and answered
C8_MinimalCreateAnswered == MinimalCreate /\ pc = "done" /\ out.kind = "json"

\* the raw projects of the answered envelope
RawProjects ==
    IF "data" \in DOMAIN replies[1].body.d /\ "projects" \in DOMAIN replies[1].body.d["data"].d
    THEN replies[1].body.d["data"].d["projects"].l ELSE <<>>

\* the groups get_projects returned, from its JSON or from its summary text
OutGroups ==
    IF out.kind = "json"
    THEN LET groups == SelectSeq(out.value.l, LAMBDA g : "group" \in DOMAIN g.d)
         IN  [j \in 1..Len(groups) |->
                 [group |-> groups[j].d["group"], projects |-> groups[j].d["projects"].l]]
    ELSE IF out.text.empty THEN <<>>
    ELSE [j \in 1..Len(out.text.groups) |->
             [group |-> out.text.groups[j].group, projects |-> out.text.groups[j].lines]]

ProjectsReturned ==
    pc = "done" /\ tool = "get_projects" /\ out.kind \in {"json", "projects_summary"}

InUngrouped(project) ==
    \E j \in 1..Len(OutGroups) :
        /\ OutGroups[j].group = StrV("Ungrouped")
        /\ \E k \in 1..Len(OutGroups[j].projects) :
              /\ OutGroups[j].projects[k].d["id"] = project["id"]
              /\ OutGroups[j].projects[k].d["name"] = project["project_name"]

\* C9: get_all_projects puts every project without a group_name field in the same
\* group as the projects whose group_name is "Ungrouped", and the output has exactly
\* one group of that name holding them all
C9_MissingGroupNameJoinsUngrouped ==
    ProjectsReturned
        => /\ Cardinality({j \in 1..Len(OutGroups) : OutGroups[j].group = StrV("Ungrouped")}) <= 1
           /\ \A i \in 1..Len(RawProjects) :
                 ("group_name" \notin DOMAIN RawProjects[i].d
                     \/ RawProjects[i].d["group_name"] = StrV("Ungrouped"))
                    => InUngrouped(RawProjects[i].d)

\* two projects named into "Ungrouped" and one without group_name were returned
C9_ThreeProjectsOneGroup ==
    /\ ProjectsReturned
    /\ Len(RawProjects) = 3
    /\ \E i \in 1..Len(RawProjects) : "group_name" \notin DOMAIN RawProjects[i].d
    /\ Cardinality({i \in 1..Len(RawProjects) :
                       /\ "group_name" \in DOMAIN RawProjects[i].d
                       /\ RawProjects[i].d["group_name"] = StrV("Ungrouped")}) = 2
    /\ Len(OutGroups) = 1

\* the request carries the signature made from the clock reading of its dispatch
SignedAt(request, at) ==
    /\ {"timestamp", "hash"} \subseteq DOMAIN request.params
    /\ request.params["timestamp"] = StrV(IntToStr(at))
    /\ request.params["hash"] = StrV(HmacSha1Hex(ApiSecret, ApiKey \o IntToStr(at)))
    /\ "X-API-KEY" \in DOMAIN request.headers
    /\ request.headers["X-API-KEY"] = StrV(ApiKey)

\* C10: every request _make_request issues, whatever its verb, carries the one
\* signature generated in that invocation (timestamp and hash in the query) and the
\* API-key header; requests dispatched at different times never share a signature
C10_EveryRequestFreshlySigned ==
    /\ \A i \in 1..Len(sent) :
          /\ sent[i].request.method \in {"GET", "POST", "DELETE"}
          /\ SignedAt(sent[i].request, sent[i].at)
    /\ \A i, j \in 1..Len(sent) :
          sent[i].at # sent[j].at
             => /\ sent[i].request.params["timestamp"] # sent[j].request.params["timestamp"]
                /\ sent[i].request.params["hash"] # sent[j].request.params["hash"]

\* one call sent two requests, the second a second later than the first
C10_TwoRequestsApart == Len(sent) = 2 /\ sent[1].at < sent[2].at

-----------------------------------------------------------------------------
(* Properties of the failure handling (Spec) *)

\* the answer is a non-2xx status, or a 2xx envelope with a failure status inside
UpstreamFailed(resp) ==
    /\ resp.kind = "http"
    /\ \/ resp.status < 200
       \/ resp.status >= 300
       \/ /\ resp.body # NotJson
          /\ "status_code" \in DOMAIN resp.body.d
          /\ resp.body.d["status_code"] # IntV(200)

\* C11: an answer that is non-2xx, or 2xx with a failure status in its envelope,
\* is raised by _make_request and never handed to the operation as a response
C11_FailedAnswerIsRaised ==
    \A i \in DOMAIN replies :
        UpstreamFailed(replies[i]) => ~IsOk(ReceiveResponse(replies[i]))

\* requests the HTTP client has been handed and has not answered yet
InFlight == IF pc \in {"await_primary", "await_secondary"} THEN 1 ELSE 0

SameRequest(a, b) == a.method = b.method /\ a.url = b.url

\* C12: one invocation of _make_request hands the HTTP client one request: each
\* request is answered before anything else is sent, a failed answer is followed
\* by no further request, and no request of a tool call is sent a second time
C12_OneAttemptPerRequest ==
    /\ Len(sent) = Len(replies) + InFlight
    /\ \A i \in DOMAIN replies :
          ~IsOk(ReceiveResponse(replies[i])) => Len(sent) = i
    /\ \A i, j \in DOMAIN sent :
          i # j => ~SameRequest(sent[i].request, sent[j].request)

\* a tool has returned after its request failed in transport or with a non-2xx status
C12_FailedRequestNotRepeated ==
    /\ pc = "done"
    /\ replies # <<>>
    /\ replies[Len(replies)] \in {TransportError, HttpResponse(500, NotJson)}
    /\ Len(sent) = Len(replies)

\* the body map the running mutation handed to _make_request
BodyMap == PrimaryCall(tool, args).data

\* the signature rides in the query string
SignedInQuery(request) == {"timestamp", "hash"} \subseteq DOMAIN request.params

\* C13: every POST carries a form body of the single field "data" that decodes to
\* the whole body map, with the signature in the query string and not in the body
C13_PostBodyIsOneDataField ==
    \A i \in DOMAIN sent :
        sent[i].request.method = "POST"
            => /\ sent[i].request.form.t = "dict"
               /\ DOMAIN sent[i].request.form.d = {"data"}
               /\ JsonLoads(sent[i].request.form.d["data"].s) = Ok(BodyMap)
               /\ SignedInQuery(sent[i].request)

\* the same for the POSTs whose body map is not empty
C13_NonEmptyBodyIsOneDataField ==
    \A i \in DOMAIN sent :
        (sent[i].request.method = "POST" /\ Truthy(BodyMap))
            => /\ sent[i].request.form.t = "dict"
               /\ DOMAIN sent[i].request.form.d = {"data"}
               /\ JsonLoads(sent[i].request.form.d["data"].s) = Ok(BodyMap)
               /\ SignedInQuery(sent[i].request)

\* the summary tool has returned after both of its requests were answered
LookedUp ==
    pc = "done" /\ tool \in {"get_project_tasks", "get_user_tasks"} /\ Len(replies) = 2

\* what get_project_details / get_user_details made of the second answer
LookupOutcome ==
    IF ~IsOk(ReceiveResponse(replies[2])) THEN ReceiveResponse(replies[2])
    ELSE IF tool = "get_project_tasks"
    THEN ProjectDetailsResult(ReceiveResponse(replies[2]).val, tz, platform)
    ELSE UserDetailsResult(ReceiveResponse(replies[2]).val)

\* the lookup raised, or the upstream answered it with a failure
LookupFailed == ~IsOk(LookupOutcome) \/ UpstreamFailed(replies[2])

Placeholder ==
    IF tool = "get_project_tasks" THEN "Project " \o args.project_id.s
    ELSE "User " \o args.user_id.s \o "'s workspace"

\* the summary, under the placeholder label wherever it names its context
PlaceholderSummary ==
    out.kind = "summary" /\ (~out.text.empty => out.text.context = Placeholder)

\* the total of the task fetch, when the envelope gives one, is a number
NumericTotal == HasMeta => TaskData["meta"].d["total"].t = "int"

InvalidCall ==
    \/ /\ tool = "create_task"
       /\ \/ args.title = StrV("")
          \/ args.project_id = StrV("")
          \/ (args.priority # NoneV /\ args.priority.i \notin 0..3)
    \/ /\ tool = "get_project_tasks"
       /\ args.status \notin {NoneV, StrV("incomplete"), StrV("complete"), StrV("in_progress")}
    \/ /\ tool = "update_task"
       /\ args = UpdateTaskDefaults

\* C15: a call with an invalid or missing required argument is rejected with a
\* failure and sends no request
C15_InvalidCallSendsNothing ==
    InvalidCall => (sent = <<>> /\ (pc = "done" => out.kind = "error"))

MutationTools == {"create_task", "update_task", "delete_task"}

\* the returned payload is a JSON object with a boolean "success"
HasSuccessFlag ==
    /\ out.kind = "json"
    /\ out.value.t = "dict"
    /\ "success" \in DOMAIN out.value.d
    /\ out.value.d["success"].t = "bool"

\* C16: whatever the outcome, a mutation tool returns a payload with an explicit
\* boolean "success" field, true exactly when the upstream returned data
C16_MutationPayloadHasSuccess ==
    (pc = "done" /\ tool \in MutationTools)
        => /\ HasSuccessFlag
           /\ out.value.d["success"].b
                 <=> (IsOk(ReceiveResponse(replies[1]))
                      /\ Truthy(Field(ReceiveResponse(replies[1]).val, "data")))

\* the first request of the call got no answer, a non-2xx status, or a failure envelope
PrimaryFailed ==
    replies # <<>> /\ (replies[1] = TransportError \/ UpstreamFailed(replies[1]))

\* C17: when the request of an operation fails in transport or is answered with a
\* failure envelope, the tool returns a failure that carries the exception, never
\* the result of a read that found nothing
C17_FailureIsSurfaced ==
    (pc = "done" /\ PrimaryFailed) => out.kind = "error"

ReadTools == {"get_projects", "get_all_tasks", "get_project_tasks", "get_user_tasks"}

\* the raw records of the envelope that answered the first request of a read
AnsweredRecords ==
    IF tool = "get_projects"
    THEN DataField(ReceiveResponse(replies[1]).val, "projects", ListV(<<>>)).l
    ELSE DataField(ReceiveResponse(replies[1]).val, "tasks", ListV(<<>>)).l

MissingId(records) == \E i \in DOMAIN records : "id" \notin DOMAIN records[i].d

\* a read has returned after its request was answered with an envelope in which
\* some record has no id
ReadOfRecordWithoutId ==
    /\ pc = "done"
    /\ tool \in ReadTools
    /\ IsOk(ReceiveResponse(replies[1]))
    /\ MissingId(AnsweredRecords)

\* the name lookup of get_project_tasks was answered with a project that has no id
LookupOfProjectWithoutId ==
    /\ LookedUp
    /\ tool = "get_project_tasks"
    /\ IsOk(ReceiveResponse(replies[2]))
    /\ MissingId(DataField(ReceiveResponse(replies[2]).val, "projects", ListV(<<>>)).l)

\* C18: when a raw task or project record of the answer has no id, the operation
\* fails as a whole with KeyError: the tool returns that error, no entity and no
\* partial collection; get_project_details fails the same way
C18_RecordWithoutIdFailsOperation ==
    /\ ReadOfRecordWithoutId => out = ErrorOut(ErrorPrefix(tool), "KeyError")
    /\ LookupOfProjectWithoutId => LookupOutcome = Raise("KeyError")

\* a task list whose second record has no id was answered with an error
C18_PartialListRejected ==
    /\ ReadOfRecordWithoutId
    /\ tool = "get_all_tasks"
    /\ Len(AnsweredRecords) = 2
    /\ "id" \in DOMAIN AnsweredRecords[1].d
    /\ out.kind = "error"

TaskListTools == {"get_all_tasks", "get_project_tasks", "get_user_tasks"}

\* a task-list tool has returned the JSON of its result
TaskListReturned == pc = "done" /\ tool \in TaskListTools /\ out.kind = "json"

\* the caller asked for the field: a list call can ask for custom fields and tags
\* only (get_user_tasks for custom fields only), never for comments or files
AskedFor(field) ==
    CASE field = "custom_fields" -> Truthy(args.include_custom_fields)
      [] field = "tags" -> Truthy(Get(args, "include_tags", BoolV(FALSE)))
      [] OTHER -> FALSE

\* C19: a task returned by a list call has custom_fields, tags, comments or files
\* only when the call asked for that field, whatever the upstream record holds
C19_ExpensiveFieldsOnlyOnRequest ==
    TaskListReturned
        => \A i \in DOMAIN out.value.d["tasks"].l :
              \A field \in {"custom_fields", "tags", "comments", "files"} :
                 field \in DOMAIN out.value.d["tasks"].l[i].d => AskedFor(field)

\* the same for custom_fields alone, the one field _format_task gates on the request
C19_CustomFieldsOnlyOnRequest ==
    TaskListReturned
        => \A i \in DOMAIN out.value.d["tasks"].l :
              "custom_fields" \in DOMAIN out.value.d["tasks"].l[i].d
                  => AskedFor("custom_fields")

-----------------------------------------------------------------------------
(* Properties of the documented defaults (SpecNorm) *)

\* the assignee each projection of the task shows
AssigneeShown(projection) ==
    IF "assigned_to" \in DOMAIN projection THEN projection["assigned_to"]
    ELSE projection["assigned_to_fullname"]

\* C20: a task whose raw record has no assigned_to_fullname shows the assignee
\* "Unassigned" in the detailed projection and in the minimal projection the
\* summary tools derive from it
C20_MissingAssigneeShowsUnassigned ==
    "assigned_to_fullname" \notin DOMAIN rawTask
        => /\ IsOk(detailed) => AssigneeShown(detailed.val) = StrV("Unassigned")
           /\ (phase = "projected" /\ IsOk(minimalOfDetailed))
                 => AssigneeShown(minimalOfDetailed.val) = StrV("Unassigned")

\* the same for the minimal projection computed from the raw record itself
C20_MinimalOfRawShowsUnassigned ==
    ("assigned_to_fullname" \notin DOMAIN rawTask /\ IsOk(minimal))
        => AssigneeShown(minimal.val) = StrV("Unassigned")

-----------------------------------------------------------------------------
(* Properties of the mutation results and of the calls' independence (Spec) *)

\* a create_task / update_task call has returned a success payload
MutationSucceeded ==
    /\ pc = "done"
    /\ tool \in {"create_task", "update_task"}
    /\ out.kind = "json"
    /\ out.value.d["success"] = BoolV(TRUE)

\* the task record the upstream returned for the mutation
MutatedRecord == Field(Field(ReceiveResponse(replies[1]).val, "data"), "tasks").l[1]

\* C21: the entity in the success payload of create_task / update_task is the
\* upstream's task in the shape the read path gives it: the dict _format_task
\* makes of that record
C21_MutationEntityIsNormalized ==
    MutationSucceeded
        => \E include_custom_fields \in BOOLEAN :
              Ok(out.value.d["task"])
                 = AsDict(_format_task(MutatedRecord.d, include_custom_fields, tz, platform))



\* the request a frame's tool would send for its arguments, had it run alone and
\* been dispatched when the clock read at
AloneRequest(f, at) ==
    _make_request(PrimaryCall(f.tool, f.args).method, PrimaryCall(f.tool, f.args).endpoint,
                  PrimaryCall(f.tool, f.args).params, PrimaryCall(f.tool, f.args).data, at).val

AloneLookup(f, at) ==
    _make_request(SecondaryCall(f.tool, f.args).method, SecondaryCall(f.tool, f.args).endpoint,
                  SecondaryCall(f.tool, f.args).params, SecondaryCall(f.tool, f.args).data,
                  at).val

\* what the tool of a finished frame would return for its arguments and the
\* answers it received, had it run alone
AloneSummary(summary, prefix) ==
    IF IsOk(summary) THEN summary.val ELSE ErrorOut(prefix, summary.exc)

AloneOut(f) ==
    IF Len(f.replies) = 1 THEN OutcomeOf(f.tool, f.args, FrameResult(f, f.replies[1]))
    ELSE AloneSummary(
             TasksSummary(FrameResult(f, f.replies[1]).val,
                          SummaryLabel(f.tool, f.args, ReceiveResponse(f.replies[2]),
                                       tz, platform),
                          f.args.limit.i, f.args.offset.i, f.clock, tz, platform),
             ErrorPrefix(f.tool))

\* the frame's requests and result are those of the call run alone
RunsAsAlone(f) ==
    /\ f.sent # <<>> => f.sent[1].request = AloneRequest(f, f.sent[1].at)
    /\ Len(f.sent) = 2 => f.sent[2].request = AloneLookup(f, f.sent[2].at)
    /\ f.pc = "done" => f.out = AloneOut(f)

-----------------------------------------------------------------------------
(* Properties of the requests' verbs and paths, and of the signer (Spec) *)

UpdateTools == {"update_project", "update_task", "update_comment", "update_current_user"}

\* the id-suffixed path of the resource an update tool was called for
ResourcePath ==
    CASE tool = "update_project" -> "projects/" \o args.project_id.s
      [] tool = "update_task" -> "tasks/" \o args.task_id.s
      [] tool = "update_comment" -> "comments/" \o args.comment_id.s
      [] tool = "update_current_user" -> "users/current"

\* C24: every update is sent as a POST to the id-suffixed path of its resource, and
\* every request of every tool has the verb GET, POST or DELETE
C24_UpdatesArePostsToResourcePath ==
    /\ \A i \in DOMAIN sent : sent[i].request.method \in {"GET", "POST", "DELETE"}
    /\ (tool \in UpdateTools /\ sent # <<>>)
          => /\ Len(sent) = 1
             /\ sent[1].request.method = "POST"
             /\ sent[1].request.url = BASE_URL \o "/" \o ResourcePath

\* an update of a comment was sent and answered with success
C24_CommentUpdateAnswered ==
    /\ pc = "done"
    /\ tool = "update_comment"
    /\ sent[1].request.url = "https://freedcamp.com/api/v1/comments/c1"
    /\ out.kind = "json"
    /\ out.value.d["success"] = BoolV(TRUE)





\* the (timestamp, hash) pair a request carries in its query
SignaturePair(request) == <<request.params["timestamp"], request.params["hash"]>>

-----------------------------------------------------------------------------
(* Properties of the two-request tools and of their summaries (Spec) *)

NamedListTools == {"get_project_tasks", "get_user_tasks"}

\* the task fetch raised: its request failed in transport, was answered with a
\* status outside 2xx or with a body that is no JSON, or a returned record has no id
FetchRaised ==
    \/ ~IsOk(ReceiveResponse(replies[1]))
    \/ MissingId(AnsweredRecords)

\* the task fetch was answered before the name lookup was sent, the lookup is the
\* second request, and it follows a fetch that returned a result
LookupFollowsFetch ==
    (tool \in NamedListTools /\ Len(sent) = 2)
        => /\ IsSummaryCall(tool, args)
           /\ replies # <<>>
           /\ ~FetchRaised
           /\ IsOk(primary)
           /\ sent[1].at <= sent[2].at
           /\ sent[2].request.url \in {BASE_URL \o "/projects/123", BASE_URL \o "/users/7"}

\* a fetch that raised is answered with the error text and no lookup
FailedFetchEndsCall ==
    (tool \in NamedListTools /\ replies # <<>> /\ FetchRaised)
        => /\ Len(sent) = 1
           /\ pc = "done"
           /\ out.kind = "error"
           /\ out.message \in {"ConnectError", "HTTPStatusError", "JSONDecodeError",
                               "KeyError"}

OneRequestWhenDetailed ==
    (tool \in NamedListTools /\ ~IsSummaryCall(tool, args)) => Len(sent) = 1

\* C26 as stated: the lookup follows the answered fetch, a failed fetch ends the call
\* with an error and without a lookup, a detailed call makes one request and a
\* summary call makes two
C26_SummaryCallMakesTwoRequests ==
    /\ LookupFollowsFetch
    /\ FailedFetchEndsCall
    /\ OneRequestWhenDetailed
    /\ (pc = "done" /\ tool \in NamedListTools /\ IsSummaryCall(tool, args))
          => Len(sent) = 2

\* C26, amended: a summary call makes two requests when its fetch returned a result
\* and one when the fetch raised
C26_SummaryCallLooksUpAfterFetch ==
    /\ LookupFollowsFetch
    /\ FailedFetchEndsCall
    /\ OneRequestWhenDetailed
    /\ (pc = "done" /\ tool \in NamedListTools /\ IsSummaryCall(tool, args))
          => Len(sent) = (IF FetchRaised THEN 1 ELSE 2)

\* a summary call whose fetch failed in transport has returned after one request
C26_SummaryCallFailedAtFetch ==
    /\ pc = "done"
    /\ tool = "get_user_tasks"
    /\ IsSummaryCall(tool, args)
    /\ replies = <<TransportError>>
    /\ Len(sent) = 1
    /\ out.kind = "error"

\* a summary tool has returned the summary of a task list that is not empty
TaskSummaryReturned ==
    /\ pc = "done"
    /\ tool \in NamedListTools
    /\ out.kind = "summary"
    /\ ~out.text.empty

\* the upstream due_ts of the record renders as a date before the day of the call
DueBeforeToday(record) ==
    /\ IsOk(_format_date(Get(record.d, "due_ts", IntV(0)), tz, platform))
    /\ IsOk(DueDay(_format_date(Get(record.d, "due_ts", IntV(0)), tz, platform).val))
    /\ DueDay(_format_date(Get(record.d, "due_ts", IntV(0)), tz, platform).val).val.i
           < Today(now, tz)

\* the summary lists the record under OVERDUE with its due date
ListedOverdue(record) ==
    \E j \in DOMAIN out.text.overdue.lines :
        /\ out.text.overdue.lines[j].d["title"] = record.d["title"]
        /\ out.text.overdue.lines[j].d["due_date"] =
               _format_date(record.d["due_ts"], tz, platform).val

\* C27: in the summary of get_project_tasks / get_user_tasks, a returned task whose
\* upstream due_ts is a date before today is listed in the OVERDUE section with that
\* due date
C27_OverdueTaskListedInSummary ==
    TaskSummaryReturned
        => \A i \in DOMAIN AnsweredRecords :
               (i <= 3 /\ DueBeforeToday(AnsweredRecords[i]))
                   => ListedOverdue(AnsweredRecords[i])



-----------------------------------------------------------------------------
(* Properties of the project groups, of the tools' failures and of their texts (Spec) *)

\* the places <<group, position>> at which the returned groups hold a project of this id
PlacesOf(id) ==
    UNION {{<<j, k>> : k \in {k \in 1..Len(OutGroups[j].projects) :
                                  OutGroups[j].projects[k].d["id"] = id}} :
           j \in 1..Len(OutGroups)}

RECURSIVE SizeOfGroups(_, _)
SizeOfGroups(groups, i) ==
    IF i > Len(groups) THEN 0 ELSE Len(groups[i].projects) + SizeOfGroups(groups, i + 1)

\* the entries of the returned list that carry the recent ids
RecentEntries ==
    SelectSeq(out.value.l, LAMBDA g : "recent_project_ids" \in DOMAIN g.d)

UpstreamRecent ==
    IF "data" \in DOMAIN replies[1].body.d
           /\ "recent_project_ids" \in DOMAIN replies[1].body.d["data"].d
    THEN replies[1].body.d["data"].d["recent_project_ids"].l ELSE <<>>

\* C28: the groups get_all_projects returns partition the upstream project list: each
\* project is held once, in the group of its group_name, no group is empty, no two
\* groups share a name, the sizes add up to the number of projects; the recent ids
\* are appended only when asked for and not empty upstream
C28_GroupsPartitionProjects ==
    ProjectsReturned
        => /\ \A i \in 1..Len(RawProjects) :
                 /\ Cardinality(PlacesOf(RawProjects[i].d["id"]))
                        = Cardinality({h \in 1..Len(RawProjects) :
                                           RawProjects[h].d["id"] = RawProjects[i].d["id"]})
                 /\ \A place \in PlacesOf(RawProjects[i].d["id"]) :
                        OutGroups[place[1]].group = GroupNameOf(RawProjects[i].d)
           /\ \A j \in 1..Len(OutGroups) : OutGroups[j].projects # <<>>
           /\ \A j, k \in 1..Len(OutGroups) : OutGroups[j].group = OutGroups[k].group => j = k
           /\ SizeOfGroups(OutGroups, 1) = Len(RawProjects)
           /\ (out.kind = "json" /\ RecentEntries # <<>>)
                 => /\ Truthy(args.include_recent)
                    /\ UpstreamRecent # <<>>
                    /\ Len(RecentEntries) = 1
                    /\ RecentEntries[1].d["recent_project_ids"].l = UpstreamRecent

\* three projects of two groups were returned in two groups, with the recent ids
C28_TwoGroupsAndRecent ==
    /\ ProjectsReturned
    /\ out.kind = "json"
    /\ Len(RawProjects) = 3
    /\ Len(OutGroups) = 2
    /\ \E j \in 1..2 : Len(OutGroups[j].projects) = 2
    /\ RecentEntries # <<>>

\* the comment update_comment was answered with lacks a field the tool reads
CommentLacksField ==
    /\ tool = "update_comment"
    /\ Truthy(DataField(ReceiveResponse(replies[1]).val, "comments", NoneV))
    /\ ~({"description", "created_by_id"}
            \subseteq DOMAIN DataField(ReceiveResponse(replies[1]).val, "comments", NoneV).l[1].d)

\* the tool's own operation failed: its request failed in transport, was answered
\* with a status outside 2xx or with a body that is no JSON, or a record of the
\* answer lacks a field the operation reads
OperationFailed ==
    /\ pc = "done"
    /\ \/ ~IsOk(ReceiveResponse(replies[1]))
       \/ tool \in ReadTools /\ MissingId(AnsweredRecords)
       \/ CommentLacksField

\* C29: a tool never raises to the transport layer: whatever it returns is a text, and
\* when its operation failed the text begins with "Error:" or "<x> Error:" and carries
\* the exception
C29_FailureReturnsErrorText ==
    /\ out.kind \in {"none", "error", "json", "summary", "projects_summary"}
    /\ OperationFailed
          => /\ out.kind = "error"
             /\ out.prefix \in {"Error: ", "<x> Error: "}
             /\ out.message = IF IsOk(ReceiveResponse(replies[1])) THEN "KeyError"
                              ELSE ReceiveResponse(replies[1]).exc

\* update_comment was answered with a comment that lacks a field and returned the
\* error text
C29_MissingFieldReturnedAsError ==
    /\ pc = "done"
    /\ tool = "update_comment"
    /\ IsOk(ReceiveResponse(replies[1]))
    /\ out = ErrorOut("Error: ", "KeyError")

-----------------------------------------------------------------------------
(* Properties of the health check (SpecHealth) *)

CredentialMissing == hc.api_key = "" \/ hc.api_secret = ""

\* the script has run to its end
HealthRunOver == hc.pc = "exited"

\* C30: health_check returns true exactly when both credentials are set and the users
\* fetch returned a list; with a credential missing it returns false, having built no
\* client and sent no request; the client of the instance it built is closed before it
\* returns
C30_HealthCheckAnswersByCredentials ==
    /\ hc.pc \in {"returned", "exited"}
          => /\ hc.returned = "True" <=> (~CredentialMissing /\ IsOk(hc.users))
             /\ hc.client \in {"none", "closed"}
             /\ hc.client = "none" <=> CredentialMissing
    /\ (HealthRunOver /\ CredentialMissing)
          => /\ hc.returned = "False"
             /\ hc.printed = "ERROR: Missing API credentials"
             /\ hc.exit = "1"
             /\ hc.client = "none"
             /\ hc.module_client = "none"
             /\ hc.sent = <<>>





=============================================================================
